---- MODULE Spec2Model ----
(***************************************************************************)
(* A model of sshed: the packet handler (sshed/packethandler.py), the      *)
(* host's diff sender (sshed/sshed_client.py) and the guest's Patcher      *)
(* (sshed/sshed.py).                                                       *)
(*                                                                         *)
(* A byte string is a sequence of one-character strings.  A header value   *)
(* is a record tagged with its kind; a header mapping (a Python dict,      *)
(* which keeps insertion order) is a sequence of name/value entries with   *)
(* distinct names.                                                         *)
(***************************************************************************)
EXTENDS Integers, Sequences, FiniteSets, TLC

VARIABLES
    \* ---- header codec: one header through encode, then decode
    cpc, cName, cValue, cLine, cDecoded,
    \* ---- PacketHandler.send
    spc, sCaller, sGiven, sHeaders, sContents, sIdx, sent,
    \* ---- PacketHandler.get over a socket that delivers a stream in chunks
    gpc, packets, stream, pos, buffer, headers, length, written, message,
    results, sawEOF, nrecv, bufsize,
    \* ---- unified diff on the host, Patcher on the guest
    ppc, original, edited, diff_bytes, sent_diff, diff, hunks, rpos,
    line_number, output, hunkIdx, lineIdx,
    \* ---- the guest's session loop: main's return value, and the file as it
    \* was when the loop last called get()
    exit_status, file_before,
    \* ---- the host's request handler: its position, the header block of the
    \* first packet, the headers get() gave, self.version, the editor started
    hpc, hRaw, hHeaders, version, editor,
    \* ---- find_socket: its position, its argument, SSHED_SOCK, what os.stat
    \* gives for each path, and what the call gave
    fpc, socket_address, environ, file_stats, found,
    \* ---- wait_until_edit_or_exit: its position, its arguments, the editor
    \* process and the file's modification time, and the calls it has made:
    \* what each poll() and each getmtime() gave, the length of each sleep
    wpc, modified_time, sleep_time, exited, mtime, polled, looked, slept,
    \* ---- get() with and without a data_file: the stream and its chunks, a
    \* handler called as get() and a handler called as get(data_file=sink)
    kstream, chunking, plain, filed,
    \* ---- the edit loop of handle(): its position, last_modified, the editing
    \* file's modification time and lines, the baseline original, the copy
    \* read last, the editor process, the updates sent, the file removed, and
    \* the number of saves so far
    lpc, last_modified, editing_mtime, editing_lines, host_original,
    temporary_file, editor_exited, sent_updates, removed, saves

codecVars == <<cpc, cName, cValue, cLine, cDecoded>>
sendVars  == <<spc, sCaller, sGiven, sHeaders, sContents, sIdx, sent>>
getVars   == <<gpc, packets, stream, pos, buffer, headers, length, written,
               message, results, sawEOF, nrecv, bufsize>>
patchVars == <<ppc, original, edited, diff_bytes, sent_diff, diff, hunks,
               rpos, line_number, output, hunkIdx, lineIdx>>
guestVars == <<exit_status, file_before>>
handlerVars == <<hpc, hRaw, hHeaders, version, editor>>
findVars == <<fpc, socket_address, environ, file_stats, found>>
waitVars == <<wpc, modified_time, sleep_time, exited, mtime, polled, looked, slept>>
sinkVars == <<kstream, chunking, plain, filed>>
loopVars == <<lpc, last_modified, editing_mtime, editing_lines, host_original,
              temporary_file, editor_exited, sent_updates, removed, saves>>
vars == <<codecVars, sendVars, getVars, patchVars, guestVars, handlerVars, findVars, waitVars, sinkVars, loopVars>>

-----------------------------------------------------------------------------
(* Byte strings *)

NL == "\n"
QUOTE == "\""
COLON == ":"

\* str.isspace() on one character (the ASCII white space characters)
IsSpace(c) == c \in {" ", "\n", "\t", "\r", "\f"}

Digits == {"0", "1", "2", "3", "4", "5", "6", "7", "8", "9"}

DigitVal(c) ==
    CASE c = "0" -> 0 [] c = "1" -> 1 [] c = "2" -> 2 [] c = "3" -> 3
      [] c = "4" -> 4 [] c = "5" -> 5 [] c = "6" -> 6 [] c = "7" -> 7
      [] c = "8" -> 8 [] c = "9" -> 9

DigitChar(d) ==
    CASE d = 0 -> "0" [] d = 1 -> "1" [] d = 2 -> "2" [] d = 3 -> "3"
      [] d = 4 -> "4" [] d = 5 -> "5" [] d = 6 -> "6" [] d = 7 -> "7"
      [] d = 8 -> "8" [] d = 9 -> "9"

\* s[from:] with a 1-based first index
Drop(s, from) == SubSeq(s, from, Len(s))

\* s[:n]
Take(s, n) == SubSeq(s, 1, IF n < Len(s) THEN n ELSE Len(s))

RECURSIVE Concat(_)
\* b''.join(parts)
Concat(parts) ==
    IF parts = <<>> THEN <<>> ELSE Head(parts) \o Concat(Tail(parts))

\* s.startswith(p)
StartsWith(s, p) == Len(s) >= Len(p) /\ SubSeq(s, 1, Len(p)) = p

\* s.endswith(p)
EndsWith(s, p) ==
    Len(s) >= Len(p) /\ SubSeq(s, Len(s) - Len(p) + 1, Len(s)) = p

\* str.strip(s): leading and trailing white space removed
Strip(s) ==
    LET keep == {i \in 1..Len(s) : ~IsSpace(s[i])}
    IN  IF keep = {} THEN <<>>
        ELSE LET lo == CHOOSE i \in keep : \A j \in keep : i <= j
                 hi == CHOOSE i \in keep : \A j \in keep : i >= j
             IN  SubSeq(s, lo, hi)

\* s.find(c) for one character: the 1-based place of the first c, 0 if none
FindChar(s, c) ==
    LET at == {i \in 1..Len(s) : s[i] = c}
    IN  IF at = {} THEN 0 ELSE CHOOSE i \in at : \A j \in at : i <= j

\* buffer.find(b'\n\n'): the 0-based place of the terminator, -1 if none
FindTerminator(buf) ==
    LET at == {i \in 1..(Len(buf) - 1) : buf[i] = NL /\ buf[i + 1] = NL}
    IN  IF at = {} THEN -1 ELSE (CHOOSE i \in at : \A j \in at : i <= j) - 1

RECURSIVE SplitOn(_, _)
\* s.split(c) for one character c
SplitOn(s, c) ==
    LET i == FindChar(s, c)
    IN  IF i = 0 THEN <<s>>
        ELSE <<SubSeq(s, 1, i - 1)>> \o SplitOn(Drop(s, i + 1), c)

-----------------------------------------------------------------------------
(* Header values: Integer, Float, Boolean, String *)

IntV(i)      == [kind |-> "Integer", n |-> i, e |-> 0, b |-> FALSE, s |-> <<>>]
\* the float m / 10^k, with k as small as it can be
FloatV(m, k) == [kind |-> "Float", n |-> m, e |-> k, b |-> FALSE, s |-> <<>>]
BoolV(x)     == [kind |-> "Boolean", n |-> 0, e |-> 0, b |-> x, s |-> <<>>]
StrV(t)      == [kind |-> "String", n |-> 0, e |-> 0, b |-> FALSE, s |-> t]

Kinds == {"Integer", "Float", "Boolean", "String"}

\* the None that headers.get(name) returns for a missing header
NoneV == [kind |-> "None", n |-> 0, e |-> 0, b |-> FALSE, s |-> <<>>]

TrueText  == <<"T", "r", "u", "e">>
FalseText == <<"F", "a", "l", "s", "e">>
NoneText  == <<"N", "o", "n", "e">>

\* PacketHandler.STRING_TO_BOOL
STRING_TO_BOOL(t) == t = TrueText

InStringToBool(t) == t \in {TrueText, FalseText}

AllDigits(t) == Len(t) > 0 /\ \A i \in 1..Len(t) : t[i] \in Digits

Unsigned(t) == IF Len(t) > 0 /\ t[1] \in {"+", "-"} THEN Tail(t) ELSE t

Negative(t) == Len(t) > 0 /\ t[1] = "-"

RECURSIVE DigitsValue(_)
DigitsValue(t) ==
    IF t = <<>> THEN 0
    ELSE 10 * DigitsValue(SubSeq(t, 1, Len(t) - 1)) + DigitVal(t[Len(t)])

RECURSIVE Pow10(_)
Pow10(k) == IF k = 0 THEN 1 ELSE 10 * Pow10(k - 1)

\* int(t) succeeds: white space around an optional sign and decimal digits
IsIntLiteral(t) == AllDigits(Unsigned(Strip(t)))

\* int(t)
IntOf(t) ==
    LET u == Strip(t)
        v == DigitsValue(Unsigned(u))
    IN  IF Negative(u) THEN 0 - v ELSE v

\* float(t) succeeds: white space around an optional sign and digits with at
\* most one point and at least one digit
IsFloatLiteral(t) ==
    LET u == Unsigned(Strip(t))
        p == FindChar(u, ".")
    IN  IF p = 0 THEN AllDigits(u)
        ELSE LET ip == SubSeq(u, 1, p - 1)
                 fp == Drop(u, p + 1)
             IN  /\ \A i \in 1..Len(ip) : ip[i] \in Digits
                 /\ \A i \in 1..Len(fp) : fp[i] \in Digits
                 /\ Len(ip) + Len(fp) > 0

RECURSIVE Normal(_, _)
\* m / 10^k with trailing zeros of the fraction dropped
Normal(m, k) ==
    IF k > 0 /\ m % 10 = 0 THEN Normal(m \div 10, k - 1) ELSE FloatV(m, k)

\* float(t)
FloatOf(t) ==
    LET s0 == Strip(t)
        u  == Unsigned(s0)
        p  == FindChar(u, ".")
        ip == IF p = 0 THEN u ELSE SubSeq(u, 1, p - 1)
        fp == IF p = 0 THEN <<>> ELSE Drop(u, p + 1)
        m  == DigitsValue(ip) * Pow10(Len(fp)) + DigitsValue(fp)
    IN  Normal(IF Negative(s0) THEN 0 - m ELSE m, Len(fp))

RECURSIVE NatText(_)
\* str(n) for n >= 0
NatText(n) ==
    IF n < 10 THEN <<DigitChar(n)>>
    ELSE NatText(n \div 10) \o <<DigitChar(n % 10)>>

\* str(n) for an int
IntText(n) == IF n < 0 THEN <<"-">> \o NatText(0 - n) ELSE NatText(n)

RECURSIVE PadFrac(_, _)
PadFrac(t, k) == IF Len(t) >= k THEN t ELSE PadFrac(<<"0">> \o t, k)

\* str(x) for the float m / 10^k
FloatText(m, k) ==
    LET a == IF m < 0 THEN 0 - m ELSE m
        sign == IF m < 0 THEN <<"-">> ELSE <<>>
    IN  sign \o NatText(a \div Pow10(k)) \o <<".">> \o
        (IF k = 0 THEN <<"0">> ELSE PadFrac(NatText(a % Pow10(k)), k))

\* str(contents) for a value that is not a str
ValueText(v) ==
    CASE v.kind = "Integer" -> IntText(v.n)
      [] v.kind = "Float"   -> FloatText(v.n, v.e)
      [] v.kind = "Boolean" -> IF v.b THEN TrueText ELSE FalseText
      [] OTHER -> v.s

-----------------------------------------------------------------------------
(* Header mappings: a dict in insertion order *)

Entry(nm, v) == [name |-> nm, val |-> v]

HasKey(h, nm) == \E i \in 1..Len(h) : h[i].name = nm

KeyIndex(h, nm) == CHOOSE i \in 1..Len(h) : h[i].name = nm

\* a mapping that puts a new key first
DictSetFirst(h, nm, v) ==
    IF HasKey(h, nm)
    THEN [h EXCEPT ![KeyIndex(h, nm)] = Entry(nm, v)]
    ELSE <<Entry(nm, v)>> \o h

\* a mapping that takes the key out and puts it in again, last
DictSetMoved(h, nm, v) ==
    LET Other(e) == e.name # nm
    IN  Append(SelectSeq(h, Other), Entry(nm, v))

\* h[nm] = v: an existing key keeps its place, a new key goes last
DictSet(h, nm, v) ==
    IF HasKey(h, nm)
    THEN [h EXCEPT ![KeyIndex(h, nm)] = Entry(nm, v)]
    ELSE Append(h, Entry(nm, v))

\* h.get(nm, default)
DictGet(h, nm, default) ==
    IF HasKey(h, nm) THEN h[KeyIndex(h, nm)].val ELSE default

\* dict equality: the same keys with the same values, in any order
DictEq(g, h) ==
    /\ \A i \in 1..Len(g) : HasKey(h, g[i].name) /\ DictGet(h, g[i].name, g[i].val) = g[i].val
    /\ \A i \in 1..Len(h) : HasKey(g, h[i].name)

-----------------------------------------------------------------------------
(* PacketHandler._generate_header_bytes *)

\* '"%s"' % t
Quoted(t) == <<QUOTE>> \o t \o <<QUOTE>>

\* t[0].isspace() or t[-1].isspace(), for a non-empty t
SpaceAtEnds(t) == IsSpace(t[1]) \/ IsSpace(t[Len(t)])

\* the name as written on the wire: quoted when it starts or ends in white space
WireName(nm) == IF SpaceAtEnds(nm) THEN Quoted(nm) ELSE nm

\* a str as written on the wire: quoted when it starts or ends in white space,
\* then when float() accepts it, then when it is True or False
WireString(t) ==
    LET a == IF SpaceAtEnds(t) THEN Quoted(t) ELSE t
        b == IF IsFloatLiteral(a) THEN Quoted(a) ELSE a
    IN  IF InStringToBool(b) THEN Quoted(b) ELSE b

\* the contents as written on the wire
WireContents(v) == IF v.kind = "String" THEN WireString(v.s) ELSE ValueText(v)

\* name[0] or contents[0] of an empty str raises IndexError
EncodeRaises(nm, v) == nm = <<>> \/ (v.kind = "String" /\ v.s = <<>>)

\* ('%s: %s\n' % (name, contents)).encode('utf-8')
GenerateHeaderBytes(nm, v) ==
    WireName(nm) \o <<COLON, " ">> \o WireContents(v) \o <<NL>>

-----------------------------------------------------------------------------
(* PacketHandler._get_headers: the parse of a header block *)

\* the name between its quotes, when it starts and ends with one
Unquote(t) ==
    IF StartsWith(t, <<QUOTE>>) /\ EndsWith(t, <<QUOTE>>)
    THEN SubSeq(t, 2, Len(t) - 1)
    ELSE t

\* a decoder that tries float() before int()
CoerceFloatFirst(t) ==
    IF IsFloatLiteral(t) THEN FloatOf(t)
    ELSE IF IsIntLiteral(t) THEN IntV(IntOf(t))
    ELSE IF InStringToBool(t) THEN BoolV(STRING_TO_BOOL(t))
    ELSE StrV(Unquote(t))

\* the coercion of stripped contents: int, else float, else bool, else str
Coerce(t) ==
    IF IsIntLiteral(t) THEN IntV(IntOf(t))
    ELSE IF IsFloatLiteral(t) THEN FloatOf(t)
    ELSE IF InStringToBool(t) THEN BoolV(STRING_TO_BOOL(t))
    ELSE StrV(Unquote(t))

\* header.split(':', 1) gives two parts
HasColon(line) == FindChar(line, COLON) # 0

\* name, contents = [str.strip(x) for x in header.split(':', 1)]
LineName(line) == Unquote(Strip(SubSeq(line, 1, FindChar(line, COLON) - 1)))

\* a decoder that takes the contents after the last colon of the line
LineContentsLastColon(line) ==
    Strip(Drop(line, (CHOOSE i \in 1..Len(line) :
                         line[i] = COLON /\ \A j \in (i + 1)..Len(line) : line[j] # COLON) + 1))

LineContents(line) == Strip(Drop(line, FindChar(line, COLON) + 1))

RECURSIVE FillHeaders(_, _)
\* the loop over raw_headers: headers[name] = contents for each line
FillHeaders(lines, h) ==
    IF lines = <<>> THEN h
    ELSE FillHeaders(Tail(lines),
                     DictSet(h, LineName(Head(lines)),
                             Coerce(LineContents(Head(lines)))))

\* a line without a colon makes the unpacking raise ValueError
ParseRaises(raw) ==
    \E i \in 1..Len(SplitOn(raw, NL)) : ~HasColon(SplitOn(raw, NL)[i])

\* the headers of the block raw_headers (the bytes before the terminator)
ParseHeaders(raw) == FillHeaders(SplitOn(raw, NL), <<>>)

-----------------------------------------------------------------------------
(* The header codec: one header encoded by _generate_header_bytes and the    *)
(* line decoded by _get_headers, or a line taken from the wire and decoded  *)

MaxValLen == 3

\* the characters of the strings that are encoded and decoded
ValAlphabet == {" ", QUOTE, COLON, "1", ".", "-", "a", NL}

StringPool ==
    UNION {[1..k -> ValAlphabet] : k \in 0..MaxValLen}
    \cup {TrueText, FalseText, NoneText, Quoted(<<"a", "b", "c">>),
          Quoted(TrueText), <<"2", "5", "5">>,
          <<"3", ".", "1", "4", "1", "5", "9", "2", "7">>}

NamePool ==
    {<<"a">>, <<" ", "a">>, <<"a", " ">>, <<"a", COLON, "b">>,
     Quoted(<<"a">>), Quoted(<<"a", COLON, "b">>), <<QUOTE>>, <<>>}

ValuePool ==
    {StrV(t) : t \in StringPool}
    \cup {IntV(0), IntV(1), IntV(0 - 1), IntV(255)}
    \cup {FloatV(1, 1), FloatV(0 - 25, 1), FloatV(1, 0)}
    \cup {BoolV(TRUE), BoolV(FALSE)}

NoHeaders == [raised |-> FALSE, headers |-> <<>>]

CodecIdle ==
    /\ cpc = "idle" /\ cName = <<>> /\ cValue = StrV(<<>>)
    /\ cLine = <<>> /\ cDecoded = NoHeaders

\* a header to encode, or the text of a line as a peer wrote it
InitCodec ==
    /\ cName \in NamePool
    /\ cValue \in ValuePool
    /\ cDecoded = NoHeaders
    /\ \/ cpc = "value" /\ cLine = <<>>
       \/ /\ cpc = "wire"
          /\ cValue.kind = "String"
          /\ cName # <<>>
          /\ cLine = cName \o <<COLON>> \o cValue.s \o <<NL>>

\* _generate_header_bytes(cName, cValue)
CodecEncode ==
    /\ cpc = "value"
    /\ IF EncodeRaises(cName, cValue)
       THEN cpc' = "raised" /\ cLine' = cLine
       ELSE cpc' = "encoded" /\ cLine' = GenerateHeaderBytes(cName, cValue)
    /\ UNCHANGED <<cName, cValue, cDecoded>>

\* _get_headers() with the line and the blank line after it in the buffer
CodecDecode ==
    /\ cpc \in {"encoded", "wire"}
    /\ LET buf == cLine \o <<NL>>
           raw == Take(buf, FindTerminator(buf))
       IN  cDecoded' = IF ParseRaises(raw)
                       THEN [raised |-> TRUE, headers |-> <<>>]
                       ELSE [raised |-> FALSE, headers |-> ParseHeaders(raw)]
    /\ cpc' = IF cpc = "encoded" THEN "decoded" ELSE "received"
    /\ UNCHANGED <<cName, cValue, cLine>>

NextCodec ==
    \/ CodecEncode /\ UNCHANGED <<sendVars, getVars, patchVars, guestVars, handlerVars, findVars, waitVars, sinkVars, loopVars>>
    \/ CodecDecode /\ UNCHANGED <<sendVars, getVars, patchVars, guestVars, handlerVars, findVars, waitVars, sinkVars, loopVars>>

-----------------------------------------------------------------------------
(* PacketHandler.send: sCaller and sGiven are the mapping and the contents  *)
(* as the caller passed them, sHeaders and sContents the same objects as    *)
(* send() changes them, sent the sendall() calls                            *)

MaxHdrs == 2
MaxBody == 2

SizeName         == <<"S", "i", "z", "e">>
VersionName      == <<"V", "e", "r", "s", "i", "o", "n">>
FilenameName     == <<"F", "i", "l", "e", "n", "a", "m", "e">>
DifferentialName == <<"D", "i", "f", "f", "e", "r", "e", "n", "t", "i", "a", "l">>
FilesizeName     == <<"F", "i", "l", "e", "s", "i", "z", "e">>
ATxt  == <<"a", ".", "t", "x", "t">>
Hello == <<"h", "e", "l", "l", "o">>

NoContents    == [kind |-> "None", data |-> <<>>, at |-> 0]
BytesOf(d)    == [kind |-> "bytes", data |-> d, at |-> 0]
\* a seekable file holding d, its position after p bytes
FileOf(d, p)  == [kind |-> "file", data |-> d, at |-> p]

BodyPool == UNION {[1..k -> {"h", NL}] : k \in 0..MaxBody} \cup {Hello}

ContentsPool ==
    {NoContents} \cup {BytesOf(d) : d \in BodyPool}
    \cup {FileOf(d, p) : d \in BodyPool, p \in 0..MaxBody}

EntryPool ==
    {Entry(VersionName, IntV(1)), Entry(FilenameName, StrV(ATxt)),
     Entry(SizeName, IntV(9)), Entry(SizeName, StrV(<<"x">>)),
     Entry(DifferentialName, BoolV(TRUE)), Entry(<<"X">>, StrV(<<>>)),
     Entry(<<>>, IntV(1))}

DistinctNames(h) ==
    \A i, j \in 1..Len(h) : h[i].name = h[j].name => i = j

MappingPool ==
    {h \in UNION {[1..k -> EntryPool] : k \in 0..MaxHdrs} : DistinctNames(h)}

SendIdle ==
    /\ spc = "idle" /\ sCaller = <<>> /\ sGiven = NoContents /\ sHeaders = <<>>
    /\ sContents = NoContents /\ sIdx = 0 /\ sent = <<>>

InitSend ==
    /\ spc = "start"
    /\ sCaller \in MappingPool
    /\ sHeaders = sCaller
    /\ sGiven \in {c \in ContentsPool : c.at <= Len(c.data)}
    /\ sContents = sGiven
    /\ sIdx = 0
    /\ sent = <<>>

\* a send() that takes the bytes after the file's position for the length
SensedSizeFromPosition(c) == Len(c.data) - c.at

\* the length send() senses: 0, len(contents), or tell() after seek(0, SEEK_END)
SensedSize(c) == Len(c.data)

\* what the last sendall() of send() is given: contents, or contents.read()
BodyBytes(c) == IF c.kind = "bytes" THEN c.data ELSE Drop(c.data, c.at + 1)

\* headers['Size'] = ..., and the file rewound
SendSetSize ==
    /\ spc = "start"
    /\ sHeaders' = DictSet(sHeaders, SizeName, IntV(SensedSize(sContents)))
    /\ sContents' = IF sContents.kind = "file"
                    THEN FileOf(sContents.data, 0) ELSE sContents
    /\ sIdx' = 1
    /\ spc' = "headers"
    /\ UNCHANGED <<sCaller, sGiven, sent>>

\* a loop that ends the header block when a header cannot be encoded
SendHeaderCloses ==
    /\ spc = "headers"
    /\ sIdx <= Len(sHeaders)
    /\ IF EncodeRaises(sHeaders[sIdx].name, sHeaders[sIdx].val)
       THEN spc' = "raised" /\ sent' = Append(sent, <<NL>>) /\ UNCHANGED sIdx
       ELSE /\ sent' = Append(sent, GenerateHeaderBytes(sHeaders[sIdx].name,
                                                        sHeaders[sIdx].val))
            /\ sIdx' = sIdx + 1
            /\ spc' = spc
    /\ UNCHANGED <<sCaller, sGiven, sHeaders, sContents>>

\* one turn of the loop over the headers
SendHeader ==
    /\ spc = "headers"
    /\ sIdx <= Len(sHeaders)
    /\ IF EncodeRaises(sHeaders[sIdx].name, sHeaders[sIdx].val)
       THEN spc' = "raised" /\ UNCHANGED <<sent, sIdx>>
       ELSE /\ sent' = Append(sent, GenerateHeaderBytes(sHeaders[sIdx].name,
                                                        sHeaders[sIdx].val))
            /\ sIdx' = sIdx + 1
            /\ spc' = spc
    /\ UNCHANGED <<sCaller, sGiven, sHeaders, sContents>>

\* sendall(b'\n'), and the return when there are no contents
SendTerminator ==
    /\ spc = "headers"
    /\ sIdx > Len(sHeaders)
    /\ sent' = Append(sent, <<NL>>)
    /\ spc' = IF sContents.kind = "None" THEN "done" ELSE "body"
    /\ UNCHANGED <<sCaller, sGiven, sHeaders, sContents, sIdx>>

\* sendall(contents) or sendall(contents.read())
SendBody ==
    /\ spc = "body"
    /\ sent' = Append(sent, BodyBytes(sContents))
    /\ sContents' = IF sContents.kind = "file"
                    THEN FileOf(sContents.data, Len(sContents.data))
                    ELSE sContents
    /\ spc' = "done"
    /\ UNCHANGED <<sCaller, sGiven, sHeaders, sIdx>>

NextSend ==
    \/ SendSetSize /\ UNCHANGED <<codecVars, getVars, patchVars, guestVars, handlerVars, findVars, waitVars, sinkVars, loopVars>>
    \/ SendHeader /\ UNCHANGED <<codecVars, getVars, patchVars, guestVars, handlerVars, findVars, waitVars, sinkVars, loopVars>>
    \/ SendTerminator /\ UNCHANGED <<codecVars, getVars, patchVars, guestVars, handlerVars, findVars, waitVars, sinkVars, loopVars>>
    \/ SendBody /\ UNCHANGED <<codecVars, getVars, patchVars, guestVars, handlerVars, findVars, waitVars, sinkVars, loopVars>>

\* the bytes send() writes for a mapping and contents, when nothing raises
WireOf(h, c) ==
    LET g == DictSet(h, SizeName, IntV(SensedSize(c)))
    IN  Concat([i \in 1..Len(g) |-> GenerateHeaderBytes(g[i].name, g[i].val)])
        \o <<NL>> \o (IF c.kind = "None" THEN <<>> ELSE c.data)

-----------------------------------------------------------------------------
(* PacketHandler.get.  The peer sends the packets with send() and then      *)
(* closes, possibly early: stream is what reaches the socket, pos how much  *)
(* of it recv() has handed out.  results are the packets get() returned,    *)
(* nrecv counts the calls of recv() and bufsize is what the last asked for. *)

BUFFER_SIZE == 4096

\* a packet the peer writes with send(h, c)
Packet(h, c) == [h |-> h, c |-> c, wire |-> WireOf(h, c)]

\* a packet of a peer that writes the bytes itself
ForeignPacket(w) == [h |-> <<>>, c |-> NoContents, wire |-> w]

\* what get() returns: the headers and the data (None, or bytes)
Result(h, isNone, d) == [headers |-> h, none |-> isNone, body |-> d]

GetPacketPool ==
    {Packet(<<>>, BytesOf(d)) : d \in UNION {[1..k -> {"h"}] : k \in 0..MaxBody}}
    \cup {Packet(<<>>, NoContents),
          Packet(<<>>, BytesOf(<<NL, NL>>)),
          Packet(<<Entry(<<"k">>, BoolV(TRUE))>>, BytesOf(<<"h">>)),
          ForeignPacket(SizeName \o <<COLON, "x", NL, NL>>),
          ForeignPacket(SizeName \o <<COLON>> \o TrueText \o <<NL, NL, "h">>),
          ForeignPacket(SizeName \o <<COLON, "1", ".", "5", NL, NL, "h">>),
          ForeignPacket(<<"k", NL, NL>>)}

PacketSeqPool ==
    {<<p>> : p \in GetPacketPool}
    \cup {<<p, q>> : p \in GetPacketPool, q \in GetPacketPool}

\* the bytes of a sequence of packets, each written by send()
WireOfAll(ps) == Concat([i \in 1..Len(ps) |-> ps[i].wire])

GetIdle ==
    /\ gpc = "idle" /\ packets = <<>> /\ stream = <<>> /\ pos = 0
    /\ buffer = <<>> /\ headers = <<>> /\ length = IntV(0) /\ written = 0
    /\ message = <<>> /\ results = <<>> /\ sawEOF = FALSE /\ nrecv = 0
    /\ bufsize = 0

InitGet ==
    /\ gpc = "ready"
    /\ packets \in PacketSeqPool
    /\ stream \in {Take(WireOfAll(packets), n) : n \in 0..Len(WireOfAll(packets))}
    /\ pos = 0
    /\ buffer = <<>>
    /\ headers = <<>>
    /\ length = IntV(0)
    /\ written = 0
    /\ message = <<>>
    /\ results = <<>>
    /\ sawEOF = FALSE
    /\ nrecv = 0
    /\ bufsize = 0

\* the sizes of chunk socket.recv(BUFFER_SIZE) may return: some of the bytes
\* not yet handed out, or none once the peer has closed
RecvSizes ==
    IF pos < Len(stream)
    THEN {k \in 1..(Len(stream) - pos) : k <= BUFFER_SIZE}
    ELSE {0}

RecvChunk(k) == SubSeq(stream, pos + 1, pos + k)

\* a handler that never takes an empty chunk for the end of the stream
SocketClosedNever(new_data) == FALSE

\* len(new_data) == 0: the socket is closed
SocketClosed(new_data) == Len(new_data) = 0

\* the caller calls get() once more
GetCall ==
    /\ gpc = "ready"
    /\ Len(results) < Len(packets) + 1
    /\ gpc' = "headers"
    /\ UNCHANGED <<packets, stream, pos, buffer, headers, length, written,
                   message, results, sawEOF, nrecv, bufsize>>

\* _get_headers: one turn of the loop that waits for the terminator
GetHeadersRecv ==
    /\ gpc = "headers"
    /\ FindTerminator(buffer) = -1
    /\ \E k \in RecvSizes :
         LET new_data == RecvChunk(k)
         IN  /\ buffer' = buffer \o new_data
             /\ pos' = pos + k
             /\ sawEOF' = (sawEOF \/ k = 0)
             /\ gpc' = IF FindTerminator(buffer \o new_data) = -1
                          /\ SocketClosed(new_data)
                       THEN "raised" ELSE "headers"
    /\ nrecv' = nrecv + 1
    /\ bufsize' = BUFFER_SIZE
    /\ UNCHANGED <<packets, stream, headers, length, written, message, results>>

\* raw_headers: the buffer up to the terminator
RawHeaders == Take(buffer, FindTerminator(buffer))

\* _get_headers: the block split off the buffer and parsed; then get() reads
\* headers.get('Size', 0)
GetHeadersParse ==
    /\ gpc = "headers"
    /\ FindTerminator(buffer) # -1
    /\ buffer' = Drop(buffer, FindTerminator(buffer) + 3)
    /\ IF ParseRaises(RawHeaders)
       THEN gpc' = "error" /\ UNCHANGED <<headers, length>>
       ELSE /\ headers' = ParseHeaders(RawHeaders)
            /\ length' = DictGet(ParseHeaders(RawHeaders), SizeName, IntV(0))
            /\ gpc' = "body"
    /\ written' = 0
    /\ message' = <<>>
    /\ UNCHANGED <<packets, stream, pos, results, sawEOF, nrecv, bufsize>>

\* the length as the comparisons and the slice of _get_bytes use it
LengthInt == IF length.kind = "Boolean" THEN (IF length.b THEN 1 ELSE 0) ELSE length.n

\* a Float length is LengthInt / LengthScale
LengthScale == IF length.kind = "Float" THEN Pow10(length.e) ELSE 1

\* written < length
WrittenBelowLength == written * LengthScale < LengthInt

\* a handler that never finds the rest of the body in its buffer
BufferNeverCovers == FALSE

\* len(self.buffer) >= (length - written)
BufferCovers == (Len(buffer) + written) * LengthScale >= LengthInt

\* the bytes _get_bytes takes off the buffer for the end of the body
TakeSegment(buf, len) == Take(buf, len)

\* what _get_bytes leaves in the buffer
LeaveBuffer(buf, len) == Drop(buf, len + 1)

\* _get_bytes with a length that is no integer: the comparison with a str
\* raises TypeError, and so does the slice with a float
GetBytesTypeError ==
    /\ gpc = "body"
    /\ \/ length.kind = "String"
       \/ length.kind = "Float" /\ WrittenBelowLength /\ BufferCovers
    /\ gpc' = "error"
    /\ UNCHANGED <<packets, stream, pos, buffer, headers, length, written,
                   message, results, sawEOF, nrecv, bufsize>>

\* _get_bytes: the loop is not entered and the function returns None
GetBytesNone ==
    /\ gpc = "body"
    /\ length.kind \in {"Integer", "Boolean", "Float"}
    /\ ~WrittenBelowLength
    /\ results' = Append(results, Result(headers, TRUE, <<>>))
    /\ gpc' = "ready"
    /\ UNCHANGED <<packets, stream, pos, buffer, headers, length, written,
                   message, sawEOF, nrecv, bufsize>>

\* _get_bytes: the buffer holds the rest of the body
GetBytesTake ==
    /\ gpc = "body"
    /\ length.kind \in {"Integer", "Boolean"}
    /\ WrittenBelowLength
    /\ BufferCovers
    /\ results' = Append(results,
           Result(headers, FALSE,
                  message \o TakeSegment(buffer, LengthInt)))
    /\ buffer' = LeaveBuffer(buffer, LengthInt)
    /\ gpc' = "ready"
    /\ UNCHANGED <<packets, stream, pos, headers, length, written, message,
                   sawEOF, nrecv, bufsize>>

\* _get_bytes: the buffer goes to the message and the next chunk is received
GetBytesRecv ==
    /\ gpc = "body"
    /\ length.kind \in {"Integer", "Boolean", "Float"}
    /\ WrittenBelowLength
    /\ ~BufferCovers
    /\ message' = message \o buffer
    /\ written' = written + Len(buffer)
    /\ \E k \in RecvSizes :
         /\ buffer' = RecvChunk(k)
         /\ pos' = pos + k
         /\ sawEOF' = (sawEOF \/ k = 0)
         /\ gpc' = IF SocketClosed(RecvChunk(k)) THEN "raised" ELSE "body"
    /\ nrecv' = nrecv + 1
    /\ bufsize' = BUFFER_SIZE
    /\ UNCHANGED <<packets, stream, headers, length, results>>

\* get() when the first recv() hands over all of s and s holds a whole packet
GetWhole(s) ==
    LET hl   == FindTerminator(s)
        h    == ParseHeaders(Take(s, hl))
        rest == Drop(s, hl + 3)
        len  == DictGet(h, SizeName, IntV(0))
        size == IF len.kind = "Boolean" THEN (IF len.b THEN 1 ELSE 0) ELSE len.n
    IN  IF 0 < size
        THEN Result(h, FALSE, TakeSegment(rest, size))
        ELSE Result(h, TRUE, <<>>)

NextGet ==
    \/ GetCall /\ UNCHANGED <<codecVars, sendVars, patchVars, guestVars, handlerVars, findVars, waitVars, sinkVars, loopVars>>
    \/ GetHeadersRecv /\ UNCHANGED <<codecVars, sendVars, patchVars, guestVars, handlerVars, findVars, waitVars, sinkVars, loopVars>>
    \/ GetHeadersParse /\ UNCHANGED <<codecVars, sendVars, patchVars, guestVars, handlerVars, findVars, waitVars, sinkVars, loopVars>>
    \/ GetBytesTypeError /\ UNCHANGED <<codecVars, sendVars, patchVars, guestVars, handlerVars, findVars, waitVars, sinkVars, loopVars>>
    \/ GetBytesNone /\ UNCHANGED <<codecVars, sendVars, patchVars, guestVars, handlerVars, findVars, waitVars, sinkVars, loopVars>>
    \/ GetBytesTake /\ UNCHANGED <<codecVars, sendVars, patchVars, guestVars, handlerVars, findVars, waitVars, sinkVars, loopVars>>
    \/ GetBytesRecv /\ UNCHANGED <<codecVars, sendVars, patchVars, guestVars, handlerVars, findVars, waitVars, sinkVars, loopVars>>

-----------------------------------------------------------------------------
(* difflib.unified_diff as send_diff calls it: SequenceMatcher without junk, *)
(* three lines of context, empty file names.  Positions count from 0 and    *)
(* ranges exclude their end, as in difflib.                                 *)

\* unified_diff's n, the lines of context (its default)
ContextLines == 3

Max(x, y) == IF x >= y THEN x ELSE y
Min(x, y) == IF x <= y THEN x ELSE y

RECURSIVE RunLen(_, _, _, _, _, _)
\* the length of the common run of a[i:ahi] and b[j:bhi]
RunLen(a, b, i, j, ahi, bhi) ==
    IF i < ahi /\ j < bhi /\ a[i + 1] = b[j + 1]
    THEN 1 + RunLen(a, b, i + 1, j + 1, ahi, bhi)
    ELSE 0

\* SequenceMatcher.find_longest_match: the longest block, of the longest the
\* one that starts earliest in a, of those the one that starts earliest in b
FindLongestMatch(a, b, alo, ahi, blo, bhi) ==
    LET starts == (alo..(ahi - 1)) \X (blo..(bhi - 1))
        len(p) == RunLen(a, b, p[1], p[2], ahi, bhi)
    IN  IF \A p \in starts : len(p) = 0 THEN <<alo, blo, 0>>
        ELSE LET best == CHOOSE p \in starts :
                     \A q \in starts :
                        \/ len(p) > len(q)
                        \/ len(p) = len(q) /\ p[1] < q[1]
                        \/ len(p) = len(q) /\ p[1] = q[1] /\ p[2] <= q[2]
             IN  <<best[1], best[2], len(best)>>

RECURSIVE MatchingBlocks(_, _, _, _, _, _)
\* SequenceMatcher.get_matching_blocks, without the closing (la, lb, 0): the
\* blocks come out in order, and no two of them touch
MatchingBlocks(a, b, alo, ahi, blo, bhi) ==
    LET m == FindLongestMatch(a, b, alo, ahi, blo, bhi)
        i == m[1]
        j == m[2]
        k == m[3]
    IN  IF k = 0 THEN <<>>
        ELSE (IF alo < i /\ blo < j
              THEN MatchingBlocks(a, b, alo, i, blo, j) ELSE <<>>)
             \o <<m>> \o
             (IF i + k < ahi /\ j + k < bhi
              THEN MatchingBlocks(a, b, i + k, ahi, j + k, bhi) ELSE <<>>)

Opcode(t, i1, i2, j1, j2) == [tag |-> t, i1 |-> i1, i2 |-> i2, j1 |-> j1, j2 |-> j2]

RECURSIVE OpcodesFrom(_, _, _)
\* SequenceMatcher.get_opcodes: the loop over the matching blocks
OpcodesFrom(blocks, i, j) ==
    IF blocks = <<>> THEN <<>>
    ELSE LET ai == Head(blocks)[1]
             bj == Head(blocks)[2]
             size == Head(blocks)[3]
             change ==
                 IF i < ai /\ j < bj THEN <<Opcode("replace", i, ai, j, bj)>>
                 ELSE IF i < ai THEN <<Opcode("delete", i, ai, j, bj)>>
                 ELSE IF j < bj THEN <<Opcode("insert", i, ai, j, bj)>>
                 ELSE <<>>
             same == IF size > 0
                     THEN <<Opcode("equal", ai, ai + size, bj, bj + size)>>
                     ELSE <<>>
         IN  change \o same \o OpcodesFrom(Tail(blocks), ai + size, bj + size)

GetOpcodes(a, b) ==
    OpcodesFrom(MatchingBlocks(a, b, 0, Len(a), 0, Len(b))
                    \o <<(<<Len(a), Len(b), 0>>)>>, 0, 0)

RECURSIVE GroupLoop(_, _, _, _)
\* SequenceMatcher.get_grouped_opcodes: the loop that cuts long equal runs
GroupLoop(codes, group, groups, n) ==
    IF codes = <<>>
    THEN IF group # <<>> /\ ~(Len(group) = 1 /\ group[1].tag = "equal")
         THEN Append(groups, group) ELSE groups
    ELSE LET c == Head(codes)
         IN  IF c.tag = "equal" /\ c.i2 - c.i1 > n + n
             THEN GroupLoop(Tail(codes),
                      <<Opcode("equal", Max(c.i1, c.i2 - n), c.i2,
                               Max(c.j1, c.j2 - n), c.j2)>>,
                      Append(groups,
                          Append(group,
                              Opcode("equal", c.i1, Min(c.i2, c.i1 + n),
                                     c.j1, Min(c.j2, c.j1 + n)))),
                      n)
             ELSE GroupLoop(Tail(codes), Append(group, c), groups, n)

\* get_grouped_opcodes: codes = self.get_opcodes() or [("equal", 0, 1, 0, 1)]
CodesOrDefault(codes) ==
    IF codes = <<>> THEN <<Opcode("equal", 0, 1, 0, 1)>> ELSE codes

\* get_grouped_opcodes: a leading equal run cut to its last n lines
TrimFirst(codes, n) ==
    IF codes[1].tag = "equal"
    THEN <<Opcode("equal", Max(codes[1].i1, codes[1].i2 - n), codes[1].i2,
                  Max(codes[1].j1, codes[1].j2 - n), codes[1].j2)>>
         \o Tail(codes)
    ELSE codes

\* get_grouped_opcodes: a trailing equal run cut to its first n lines
TrimLast(codes, n) ==
    IF codes[Len(codes)].tag = "equal"
    THEN SubSeq(codes, 1, Len(codes) - 1)
         \o <<Opcode("equal", codes[Len(codes)].i1,
                     Min(codes[Len(codes)].i2, codes[Len(codes)].i1 + n),
                     codes[Len(codes)].j1,
                     Min(codes[Len(codes)].j2, codes[Len(codes)].j1 + n))>>
    ELSE codes

\* SequenceMatcher.get_grouped_opcodes(n)
GroupedOpcodes(a, b, n) ==
    GroupLoop(TrimLast(TrimFirst(CodesOrDefault(GetOpcodes(a, b)), n), n),
              <<>>, <<>>, n)

\* difflib._format_range_unified
FormatRange(start, stop) ==
    LET beginning == start + 1
        len == stop - start
    IN  IF len = 1 THEN IntText(beginning)
        ELSE IntText(IF len = 0 THEN beginning - 1 ELSE beginning)
             \o <<",">> \o IntText(len)

\* the lines of one opcode
OpcodeLines(a, b, c) ==
    LET olds(pre) == [k \in 1..(c.i2 - c.i1) |-> <<pre>> \o a[c.i1 + k]]
        news == [k \in 1..(c.j2 - c.j1) |-> <<"+">> \o b[c.j1 + k]]
    IN  IF c.tag = "equal" THEN olds(" ")
        ELSE (IF c.tag \in {"replace", "delete"} THEN olds("-") ELSE <<>>)
             \o (IF c.tag \in {"replace", "insert"} THEN news ELSE <<>>)

\* the lines of one group: the @@ line and the lines of its opcodes
GroupLines(a, b, g) ==
    <<(<<"@", "@", " ", "-">> \o FormatRange(g[1].i1, g[Len(g)].i2)
       \o <<" ", "+">> \o FormatRange(g[1].j1, g[Len(g)].j2)
       \o <<" ", "@", "@", NL>>)>>
    \o Concat([k \in 1..Len(g) |-> OpcodeLines(a, b, g[k])])

\* a diff without lines of context
UnifiedDiffNoContext(a, b) ==
    LET groups == GroupedOpcodes(a, b, 0)
    IN  IF groups = <<>> THEN <<>>
        ELSE <<(<<"-", "-", "-", " ", NL>>), (<<"+", "+", "+", " ", NL>>)>>
             \o Concat([k \in 1..Len(groups) |-> GroupLines(a, b, groups[k])])

\* list(difflib.unified_diff(a, b))
UnifiedDiff(a, b) ==
    LET groups == GroupedOpcodes(a, b, ContextLines)
    IN  IF groups = <<>> THEN <<>>
        ELSE <<(<<"-", "-", "-", " ", NL>>), (<<"+", "+", "+", " ", NL>>)>>
             \o Concat([k \in 1..Len(groups) |-> GroupLines(a, b, groups[k])])

-----------------------------------------------------------------------------
(* The guest: the diff split into lines, Patcher._get_hunks, Patcher.patch  *)

RECURSIVE SplitLines(_)
\* bytes.splitlines(keepends=True): a line ends at \n, \r\n or \r
SplitLines(t) ==
    LET brk == {i \in 1..Len(t) : t[i] \in {NL, "\r"}}
    IN  IF t = <<>> THEN <<>>
        ELSE IF brk = {} THEN <<t>>
        ELSE LET i == CHOOSE x \in brk : \A y \in brk : x <= y
                 end == IF t[i] = "\r" /\ i < Len(t) /\ t[i + 1] = NL
                        THEN i + 1 ELSE i
             IN  <<SubSeq(t, 1, end)>> \o SplitLines(Drop(t, end + 1))

RECURSIVE SplitWhitespace(_)
\* bytes.split(): the runs of characters that are not white space
SplitWhitespace(t) ==
    LET keep == {i \in 1..Len(t) : ~IsSpace(t[i])}
    IN  IF keep = {} THEN <<>>
        ELSE LET lo == CHOOSE x \in keep : \A y \in keep : x <= y
                 sp == {i \in lo..Len(t) : IsSpace(t[i])}
                 hi == IF sp = {} THEN Len(t) + 1
                       ELSE CHOOSE x \in sp : \A y \in sp : x <= y
             IN  <<SubSeq(t, lo, hi - 1)>> \o SplitWhitespace(Drop(t, hi))

\* a _get_hunks that drops only the line of the first file
IsFileLineMinusOnly(line) == StartsWith(line, <<"-", "-", "-">>)

\* diff[0].startswith((b'---', b'+++'))
IsFileLine(line) ==
    StartsWith(line, <<"-", "-", "-">>) \/ StartsWith(line, <<"+", "+", "+">>)

\* diff[0].startswith(b'@@')
IsHunkHeader(line) == StartsWith(line, <<"@", "@">>)

RECURSIVE GetHunksLoop(_, _, _)
\* the loop of Patcher._get_hunks and the lines after it
GetHunksLoop(d, hunk, hs) ==
    IF d = <<>>
    THEN IF hunk # <<>> THEN Append(hs, hunk) ELSE hs
    ELSE IF IsFileLine(Head(d)) THEN GetHunksLoop(Tail(d), hunk, hs)
    ELSE IF IsHunkHeader(Head(d)) /\ hunk # <<>>
         THEN GetHunksLoop(Tail(d), <<Head(d)>>, Append(hs, hunk))
         ELSE GetHunksLoop(Tail(d), Append(hunk, Head(d)), hs)

\* Patcher._get_hunks(diff)
GetHunks(d) == GetHunksLoop(d, <<>>, <<>>)

\* a loop that reads the lines and leaves them in the list
PopNone(d) == d

\* the caller's list after _get_hunks: every turn of the loop pops diff[0]
RECURSIVE PopAll(_)
PopAll(d) == IF Len(d) > 0 THEN PopAll(Tail(d)) ELSE d

\* a parse that takes the number after the comma, the count of the hunk
StartTextCount(header) ==
    LET t == Tail(SplitWhitespace(header)[2])
    IN  IF FindChar(t, ",") = 0 THEN t ELSE SubSeq(t, FindChar(t, ",") + 1, Len(t))

\* header.split()[1][1:], cut at its first comma
StartText(header) ==
    LET t == Tail(SplitWhitespace(header)[2])
    IN  IF FindChar(t, ",") = 0 THEN t ELSE SubSeq(t, 1, FindChar(t, ",") - 1)

\* the header has no second word (IndexError) or no number there (ValueError)
HeaderRaises(header) ==
    \/ Len(SplitWhitespace(header)) < 2
    \/ SplitWhitespace(header)[2] = <<>>
    \/ ~IsIntLiteral(StartText(header))

\* start_line of a hunk
StartLine(header) == IntOf(StartText(header))

\* self.original.readline() after r lines have been read: b'' at the end
ReadLine(orig, r) == IF r < Len(orig) THEN orig[r + 1] ELSE <<>>

\* a patch that writes nothing before a hunk
CopyNothing(orig, r, turns) == <<>>

\* the lines of the original copied before a hunk: one readline() per turn
RECURSIVE CopyUnchanged(_, _, _)
CopyUnchanged(orig, r, turns) ==
    IF turns <= 0 THEN <<>>
    ELSE <<ReadLine(orig, r)>> \o CopyUnchanged(orig, Min(r + 1, Len(orig)), turns - 1)

MaxLines == 2

LinePool == {<<"a", NL>>, <<"b", NL>>, <<"-", "-", NL>>, <<"b">>}

\* what readlines() can return: only the last line may lack its line feed
IsLines(ls) == \A i \in 1..(Len(ls) - 1) : ls[i][Len(ls[i])] = NL

LinesPool ==
    {ls \in UNION {[1..k -> LinePool] : k \in 0..MaxLines} : IsLines(ls)}

PatchIdle ==
    /\ ppc = "idle" /\ original = <<>> /\ edited = <<>> /\ diff_bytes = <<>>
    /\ sent_diff = FALSE
    /\ diff = <<>> /\ hunks = <<>> /\ rpos = 0 /\ line_number = 0
    /\ output = <<>> /\ hunkIdx = 0 /\ lineIdx = 0

\* the files of the scenarios: one line replaced in a file of three lines;
\* the first line deleted from a file whose diff is as long as what is left
LongLine == [i \in 1..32 |-> IF i = 32 THEN NL ELSE "l"]

ScenarioOriginal == <<<<"A", NL>>, <<"B", NL>>, <<"C", NL>>>>
ScenarioEdited   == <<<<"A", NL>>, <<"X", NL>>, <<"C", NL>>>>
TieOriginal == <<<<"a", NL>>, <<"c", NL>>, <<"c", NL>>, <<"c", NL>>, LongLine>>
TieEdited   == Tail(TieOriginal)

PairPool ==
    (LinesPool \X LinesPool)
    \cup {<<ScenarioOriginal, ScenarioEdited>>, <<TieOriginal, TieEdited>>}

\* sum([len(line) for line in edited])
EditedLength(ls) == Len(Concat(ls))

\* send_diff sends the diff unless it is longer than the edited file
SendsDiff(d, ls) == ~(Len(d) > EditedLength(ls))

InitPatch ==
    /\ ppc = "start"
    /\ \E pr \in PairPool : original = pr[1] /\ edited = pr[2]
    /\ diff_bytes = <<>>
    /\ sent_diff = FALSE
    /\ diff = <<>>
    /\ hunks = <<>>
    /\ rpos = 0
    /\ line_number = 0
    /\ output = <<>>
    /\ hunkIdx = 0
    /\ lineIdx = 0

\* send_diff: the diff of the two line lists, joined and encoded, and
\* whether send_diff sends it and returns True
HostDiff ==
    /\ ppc = "start"
    /\ diff_bytes' = Concat(UnifiedDiff(original, edited))
    /\ sent_diff' = SendsDiff(Concat(UnifiedDiff(original, edited)), edited)
    /\ ppc' = "sent"
    /\ UNCHANGED <<original, edited, diff, hunks, rpos, line_number, output,
                   hunkIdx, lineIdx>>

\* main: diff = edited.splitlines(keepends=True)
GuestSplit ==
    /\ ppc = "sent"
    /\ diff' = SplitLines(diff_bytes)
    /\ ppc' = "split"
    /\ UNCHANGED <<original, edited, diff_bytes, sent_diff, hunks, rpos, line_number,
                   output, hunkIdx, lineIdx>>

\* Patcher(file, diff): _get_hunks pops every line off the caller's list;
\* then patch() up to its loop over the hunks
PatcherInit ==
    /\ ppc = "split"
    /\ hunks' = GetHunks(diff)
    /\ diff' = PopAll(diff)
    /\ rpos' = 0
    /\ line_number' = 1
    /\ output' = <<>>
    /\ hunkIdx' = 1
    /\ lineIdx' = 0
    /\ ppc' = "patch"
    /\ UNCHANGED <<original, edited, diff_bytes, sent_diff>>

\* patch: the header of the next hunk, and the unchanged lines before it
PatchHunkHeader ==
    /\ ppc = "patch"
    /\ hunkIdx <= Len(hunks)
    /\ lineIdx = 0
    /\ LET header == hunks[hunkIdx][1]
       IN  IF HeaderRaises(header)
           THEN ppc' = "error" /\ UNCHANGED <<rpos, line_number, output, lineIdx>>
           ELSE LET turns == Max(0, StartLine(header) - line_number)
                IN  /\ output' = output \o CopyUnchanged(original, rpos, turns)
                    /\ rpos' = Min(rpos + turns, Len(original))
                    /\ line_number' = line_number + turns
                    /\ lineIdx' = 1
                    /\ ppc' = ppc
    /\ UNCHANGED <<original, edited, diff_bytes, sent_diff, diff, hunks, hunkIdx>>

\* patch: one line of the hunk
PatchLine ==
    /\ ppc = "patch"
    /\ hunkIdx <= Len(hunks)
    /\ lineIdx >= 1
    /\ lineIdx + 1 <= Len(hunks[hunkIdx])
    /\ LET line == hunks[hunkIdx][lineIdx + 1]
           original_line == ReadLine(original, rpos)
       IN  IF StartsWith(line, <<"-">>) \/ StartsWith(line, <<" ">>)
           THEN /\ rpos' = Min(rpos + 1, Len(original))
                /\ line_number' = line_number + 1
                /\ IF original_line # Tail(line)
                   THEN ppc' = "malformed" /\ UNCHANGED output
                   ELSE /\ ppc' = ppc
                        /\ output' = IF StartsWith(line, <<" ">>)
                                     THEN Append(output, original_line)
                                     ELSE output
           ELSE /\ output' = IF StartsWith(line, <<"+">>)
                             THEN Append(output, Tail(line)) ELSE output
                /\ UNCHANGED <<rpos, line_number, ppc>>
    /\ lineIdx' = lineIdx + 1
    /\ UNCHANGED <<original, edited, diff_bytes, sent_diff, diff, hunks, hunkIdx>>

\* patch: the hunk has no more lines
PatchNextHunk ==
    /\ ppc = "patch"
    /\ hunkIdx <= Len(hunks)
    /\ lineIdx >= 1
    /\ lineIdx + 1 > Len(hunks[hunkIdx])
    /\ hunkIdx' = hunkIdx + 1
    /\ lineIdx' = 0
    /\ UNCHANGED <<ppc, original, edited, diff_bytes, sent_diff, diff, hunks, rpos,
                   line_number, output>>

\* patch: output.writelines(self.original.readlines())
PatchFinish ==
    /\ ppc = "patch"
    /\ hunkIdx > Len(hunks)
    /\ output' = output \o Drop(original, rpos + 1)
    /\ rpos' = Len(original)
    /\ ppc' = "done"
    /\ UNCHANGED <<original, edited, diff_bytes, sent_diff, diff, hunks, line_number,
                   hunkIdx, lineIdx>>

NextPatch ==
    \/ HostDiff /\ UNCHANGED <<codecVars, sendVars, getVars, guestVars, handlerVars, findVars, waitVars, sinkVars, loopVars>>
    \/ GuestSplit /\ UNCHANGED <<codecVars, sendVars, getVars, guestVars, handlerVars, findVars, waitVars, sinkVars, loopVars>>
    \/ PatcherInit /\ UNCHANGED <<codecVars, sendVars, getVars, guestVars, handlerVars, findVars, waitVars, sinkVars, loopVars>>
    \/ PatchHunkHeader /\ UNCHANGED <<codecVars, sendVars, getVars, guestVars, handlerVars, findVars, waitVars, sinkVars, loopVars>>
    \/ PatchLine /\ UNCHANGED <<codecVars, sendVars, getVars, guestVars, handlerVars, findVars, waitVars, sinkVars, loopVars>>
    \/ PatchNextHunk /\ UNCHANGED <<codecVars, sendVars, getVars, guestVars, handlerVars, findVars, waitVars, sinkVars, loopVars>>
    \/ PatchFinish /\ UNCHANGED <<codecVars, sendVars, getVars, guestVars, handlerVars, findVars, waitVars, sinkVars, loopVars>>

-----------------------------------------------------------------------------
(* The Patcher on a diff as it may arrive: any list of lines, whether or    *)
(* not it is the diff of the original                                       *)

MaxDiffLines == 3

HunkAt1 == <<"@", "@", " ", "-", "1", " ", "+", "1", " ", "@", "@", NL>>
HunkAt2 == <<"@", "@", " ", "-", "2", " ", "+", "2", " ", "@", "@", NL>>
HunkAt3 == <<"@", "@", " ", "-", "3", ",", "0", " ", "+", "2", " ", "@", "@", NL>>

DiffLinePool ==
    {HunkAt1, HunkAt2, HunkAt3,
     <<"-", "a", NL>>, <<"+", "b", NL>>, <<" ", "a", NL>>,
     <<"-">>, <<" ">>,
     <<"-", "-", "-", " ", NL>>, <<"+", "+", "+", " ", NL>>,
     <<"x", NL>>}

\* one hunk with a removed, an added and a context line, for the second line
ReplaceDiff == <<HunkAt2, <<"-", "b", NL>>, <<"+", "c", NL>>, <<" ", "a", NL>>>>

DiffPool == UNION {[1..k -> DiffLinePool] : k \in 0..MaxDiffLines} \cup {ReplaceDiff}

OriginalPool ==
    {<<>>, <<<<"a", NL>>>>, <<<<"a", NL>>, <<"b", NL>>>>, <<<<"b", NL>>>>,
     <<<<"a", NL>>, <<"b", NL>>, <<"a", NL>>>>}

\* Patcher(original, diff) is about to be built
InitPatcher ==
    /\ ppc = "split"
    /\ original \in OriginalPool
    /\ edited = <<>>
    /\ diff_bytes = <<>>
    /\ sent_diff = FALSE
    /\ diff \in DiffPool
    /\ hunks = <<>>
    /\ rpos = 0
    /\ line_number = 0
    /\ output = <<>>
    /\ hunkIdx = 0
    /\ lineIdx = 0

NextPatcher ==
    \/ PatcherInit /\ UNCHANGED <<codecVars, sendVars, getVars, guestVars, handlerVars, findVars, waitVars, sinkVars, loopVars>>
    \/ PatchHunkHeader /\ UNCHANGED <<codecVars, sendVars, getVars, guestVars, handlerVars, findVars, waitVars, sinkVars, loopVars>>
    \/ PatchLine /\ UNCHANGED <<codecVars, sendVars, getVars, guestVars, handlerVars, findVars, waitVars, sinkVars, loopVars>>
    \/ PatchNextHunk /\ UNCHANGED <<codecVars, sendVars, getVars, guestVars, handlerVars, findVars, waitVars, sinkVars, loopVars>>
    \/ PatchFinish /\ UNCHANGED <<codecVars, sendVars, getVars, guestVars, handlerVars, findVars, waitVars, sinkVars, loopVars>>

-----------------------------------------------------------------------------
(* The guest's session loop in main: get() an update packet, patch the file *)
(* or overwrite it, until the socket closes.  original holds the lines of   *)
(* the guest's file.                                                        *)

RECURSIVE ReadLines(_)
\* the lines readline() finds in a file that holds t: each ends at its \n
ReadLines(t) ==
    IF t = <<>> THEN <<>>
    ELSE IF FindChar(t, NL) = 0 THEN <<t>>
    ELSE <<SubSeq(t, 1, FindChar(t, NL))>> \o ReadLines(Drop(t, FindChar(t, NL) + 1))

\* the packet send_diff sends for the baseline o and the edited lines e
DiffPacket(o, e) ==
    Packet(<<Entry(DifferentialName, BoolV(TRUE)),
             Entry(FilesizeName, IntV(EditedLength(e)))>>,
           BytesOf(Concat(UnifiedDiff(o, e))))

\* the packet handle sends with the whole edited file, after readlines() on it
FullPacket(e) ==
    Packet(<<Entry(DifferentialName, StrV(FalseText))>>,
           FileOf(Concat(e), Len(Concat(e))))

GuestFile == <<<<"a", NL>>, <<"b", NL>>>>
FirstEdit == <<<<"a", NL>>, <<"c", NL>>>>
NextEdit  == <<<<"a", NL>>, <<"d", NL>>>>

\* the updates of a session: a diff of the guest's file, a diff of another
\* baseline, full files, and a packet of a peer that writes a Size of its own
GuestSeqPool ==
    {<<DiffPacket(GuestFile, FirstEdit)>>,
     <<DiffPacket(FirstEdit, NextEdit)>>,
     <<FullPacket(<<<<"b", NL>>>>)>>,
     <<FullPacket(<<>>)>>,
     <<ForeignPacket(SizeName \o <<COLON, "x", NL, NL>>)>>,
     <<FullPacket(<<<<"b", NL>>>>), DiffPacket(<<<<"b", NL>>>>, <<<<"c", NL>>>>)>>}

\* the host closes the socket after its last packet, or that many bytes short
\* of its end
GuestCuts == {0, 1}

GuestIdle == exit_status = <<>> /\ file_before = <<>>

\* main has sent the file and enters its loop
InitGuest ==
    /\ ppc = "wait"
    /\ original = GuestFile
    /\ file_before = GuestFile
    /\ exit_status = <<>>
    /\ edited = <<>> /\ diff_bytes = <<>> /\ sent_diff = FALSE /\ diff = <<>>
    /\ hunks = <<>> /\ rpos = 0 /\ line_number = 0 /\ output = <<>>
    /\ hunkIdx = 0 /\ lineIdx = 0
    /\ gpc = "ready"
    /\ packets \in GuestSeqPool
    /\ stream \in {Take(WireOfAll(packets), Len(WireOfAll(packets)) - n) : n \in GuestCuts}
    /\ pos = 0 /\ buffer = <<>> /\ headers = <<>> /\ length = IntV(0)
    /\ written = 0 /\ message = <<>> /\ results = <<>> /\ sawEOF = FALSE
    /\ nrecv = 0
    /\ bufsize = 0

\* what get() returned last
LastResult == results[Len(results)]

\* headers.get('Differential') is True
IsDifferential(r) == DictGet(r.headers, DifferentialName, NoneV) = BoolV(TRUE)

\* main: file.seek(0), then packet_handler.get() is called
GuestCall ==
    /\ ppc = "wait"
    /\ GetCall
    /\ ppc' = "get"
    /\ file_before' = original
    /\ UNCHANGED <<original, edited, diff_bytes, sent_diff, diff, hunks, rpos,
                   line_number, output, hunkIdx, lineIdx, exit_status>>

\* a loop that does not catch SocketClosedError
GuestClosedCrash ==
    /\ ppc = "get"
    /\ gpc = "raised"
    /\ ppc' = "error"
    /\ UNCHANGED <<original, edited, diff_bytes, sent_diff, diff, hunks, rpos,
                   line_number, output, hunkIdx, lineIdx, exit_status, file_before>>

\* main: except SocketClosedError: return 0
GuestClosed ==
    /\ ppc = "get"
    /\ gpc = "raised"
    /\ ppc' = "exited"
    /\ exit_status' = <<0>>
    /\ UNCHANGED <<original, edited, diff_bytes, sent_diff, diff, hunks, rpos,
                   line_number, output, hunkIdx, lineIdx, file_before>>

\* get() raised an error that main does not catch
GuestGetError ==
    /\ ppc = "get"
    /\ gpc = "error"
    /\ ppc' = "error"
    /\ UNCHANGED <<original, edited, diff_bytes, sent_diff, diff, hunks, rpos,
                   line_number, output, hunkIdx, lineIdx, exit_status, file_before>>

\* a loop that writes what it received over the file before it patches
GuestDispatchWritesFirst ==
    /\ ppc = "get"
    /\ gpc = "ready"
    /\ IF LastResult.none
       THEN ppc' = "error" /\ UNCHANGED <<original, diff>>
       ELSE /\ original' = ReadLines(LastResult.body)
            /\ IF IsDifferential(LastResult)
               THEN diff' = SplitLines(LastResult.body) /\ ppc' = "split"
               ELSE ppc' = "wait" /\ UNCHANGED diff
    /\ UNCHANGED <<edited, diff_bytes, sent_diff, hunks, rpos, line_number,
                   output, hunkIdx, lineIdx, exit_status, file_before>>

\* main: get() has returned; the diff is split into lines, or the body is
\* written over the file and the file truncated after it.  A body of None
\* has no splitlines() and cannot be written.
GuestDispatch ==
    /\ ppc = "get"
    /\ gpc = "ready"
    /\ IF LastResult.none
       THEN ppc' = "error" /\ UNCHANGED <<original, diff>>
       ELSE IF IsDifferential(LastResult)
            THEN /\ diff' = SplitLines(LastResult.body)
                 /\ ppc' = "split"
                 /\ UNCHANGED original
            ELSE /\ original' = ReadLines(LastResult.body)
                 /\ ppc' = "wait"
                 /\ UNCHANGED diff
    /\ UNCHANGED <<edited, diff_bytes, sent_diff, hunks, rpos, line_number,
                   output, hunkIdx, lineIdx, exit_status, file_before>>

\* main: patch() has returned; the output is written over the file and the
\* file truncated after it
GuestWrite ==
    /\ ppc = "done"
    /\ original' = ReadLines(Concat(output))
    /\ ppc' = "wait"
    /\ UNCHANGED <<edited, diff_bytes, sent_diff, diff, hunks, rpos, line_number,
                   output, hunkIdx, lineIdx, exit_status, file_before>>

NextGuest ==
    \/ GuestCall /\ UNCHANGED <<codecVars, sendVars, handlerVars, findVars, waitVars, sinkVars, loopVars>>
    \/ GetHeadersRecv /\ UNCHANGED <<codecVars, sendVars, patchVars, guestVars, handlerVars, findVars, waitVars, sinkVars, loopVars>>
    \/ GetHeadersParse /\ UNCHANGED <<codecVars, sendVars, patchVars, guestVars, handlerVars, findVars, waitVars, sinkVars, loopVars>>
    \/ GetBytesTypeError /\ UNCHANGED <<codecVars, sendVars, patchVars, guestVars, handlerVars, findVars, waitVars, sinkVars, loopVars>>
    \/ GetBytesNone /\ UNCHANGED <<codecVars, sendVars, patchVars, guestVars, handlerVars, findVars, waitVars, sinkVars, loopVars>>
    \/ GetBytesTake /\ UNCHANGED <<codecVars, sendVars, patchVars, guestVars, handlerVars, findVars, waitVars, sinkVars, loopVars>>
    \/ GetBytesRecv /\ UNCHANGED <<codecVars, sendVars, patchVars, guestVars, handlerVars, findVars, waitVars, sinkVars, loopVars>>
    \/ GuestClosed /\ UNCHANGED <<codecVars, sendVars, getVars, handlerVars, findVars, waitVars, sinkVars, loopVars>>
    \/ GuestGetError /\ UNCHANGED <<codecVars, sendVars, getVars, handlerVars, findVars, waitVars, sinkVars, loopVars>>
    \/ GuestDispatch /\ UNCHANGED <<codecVars, sendVars, getVars, handlerVars, findVars, waitVars, sinkVars, loopVars>>
    \/ PatcherInit /\ UNCHANGED <<codecVars, sendVars, getVars, guestVars, handlerVars, findVars, waitVars, sinkVars, loopVars>>
    \/ PatchHunkHeader /\ UNCHANGED <<codecVars, sendVars, getVars, guestVars, handlerVars, findVars, waitVars, sinkVars, loopVars>>
    \/ PatchLine /\ UNCHANGED <<codecVars, sendVars, getVars, guestVars, handlerVars, findVars, waitVars, sinkVars, loopVars>>
    \/ PatchNextHunk /\ UNCHANGED <<codecVars, sendVars, getVars, guestVars, handlerVars, findVars, waitVars, sinkVars, loopVars>>
    \/ PatchFinish /\ UNCHANGED <<codecVars, sendVars, getVars, guestVars, handlerVars, findVars, waitVars, sinkVars, loopVars>>
    \/ GuestWrite /\ UNCHANGED <<codecVars, sendVars, getVars, handlerVars, findVars, waitVars, sinkVars, loopVars>>

-----------------------------------------------------------------------------
(* The host's request handler: SocketRequestHandler.handle up to the start  *)
(* of the editor                                                            *)

\* x in range(1, 2): an int (a bool is one) is compared by arithmetic, any
\* other value by == with the elements of the range
InProtocolVersions(v) ==
    \/ v.kind = "Integer" /\ v.n = 1
    \/ v.kind = "Boolean" /\ v.b
    \/ v.kind = "Float" /\ v.n = 1 /\ v.e = 0

\* the texts a first packet gives its Version header, and no Version at all
VersionTexts ==
    {<<"1">>, <<"2">>, <<"0">>, <<"0", "1">>, <<"1", ".", "0">>, <<"1", ".", "5">>,
     TrueText, FalseText, <<QUOTE, "1", QUOTE>>, <<"x">>, <<>>}

VersionLines ==
    {IF t = <<>> THEN <<>> ELSE VersionName \o <<COLON>> \o t \o <<NL>> : t \in VersionTexts}

OtherLines ==
    {<<>>,
     FilenameName \o <<COLON, "a", NL>>,
     FilenameName \o <<COLON, "a", NL>> \o DifferentialName \o <<COLON>> \o TrueText \o <<NL>>,
     DifferentialName \o <<COLON>> \o TrueText \o <<NL>> \o FilenameName \o <<COLON, "a", NL>>,
     FilenameName \o <<COLON, "a", NL>> \o DifferentialName \o <<COLON>> \o FalseText \o <<NL>>}

\* the header blocks of a first packet, without the line feed that ends the
\* last line
FirstBlocks ==
    {Take(v \o o, Len(v \o o) - 1) : v \in VersionLines, o \in OtherLines} \ {<<>>}

HandlerIdle ==
    hpc = "idle" /\ hRaw = <<>> /\ hHeaders = <<>> /\ version = NoneV /\ editor = FALSE

\* a connection is accepted and handle() called; or, for the check of the
\* version alone, get() has given the headers of the first packet
InitHandler ==
    /\ hRaw \in FirstBlocks
    /\ \/ hpc = "start" /\ hHeaders = <<>>
       \/ hpc = "got" /\ hHeaders = ParseHeaders(hRaw)
    /\ version = NoneV
    /\ editor = FALSE

\* handle: headers = self.get(file=original); get() has no parameter of that
\* name, and the call raises TypeError before anything is read
HandleGet ==
    /\ hpc = "start"
    /\ hpc' = "error"
    /\ UNCHANGED <<hRaw, hHeaders, version, editor>>

\* handle: if headers.get('Version') not in self.PROTOCOL_VERSIONS: return
HandleVersionCheck ==
    /\ hpc = "got"
    /\ hpc' = IF InProtocolVersions(DictGet(hHeaders, VersionName, NoneV))
              THEN "accepted" ELSE "dropped"
    /\ UNCHANGED <<hRaw, hHeaders, version, editor>>

\* handle: self.version and self.differential set, the file duplicated under
\* headers['Filename'] (KeyError without one) and the editor started
HandleStartEditor ==
    /\ hpc = "accepted"
    /\ version' = DictGet(hHeaders, VersionName, NoneV)
    /\ IF HasKey(hHeaders, FilenameName)
       THEN hpc' = "editing" /\ editor' = TRUE
       ELSE hpc' = "error" /\ UNCHANGED editor
    /\ UNCHANGED <<hRaw, hHeaders>>

NextHandler ==
    \/ HandleGet /\ UNCHANGED <<codecVars, sendVars, getVars, patchVars, guestVars, findVars, waitVars, sinkVars, loopVars>>
    \/ HandleVersionCheck /\ UNCHANGED <<codecVars, sendVars, getVars, patchVars, guestVars, findVars, waitVars, sinkVars, loopVars>>
    \/ HandleStartEditor /\ UNCHANGED <<codecVars, sendVars, getVars, patchVars, guestVars, findVars, waitVars, sinkVars, loopVars>>

-----------------------------------------------------------------------------
(* find_socket: the path of the socket to use, or None                      *)

S_IRUSR == 256
S_IWUSR == 128
\* os.getuid()
Getuid == 1000

SocketSuffix == <<"/", "s", "o", "c", "k", "e", "t">>

\* what os.stat gives for a path: the stats of what is there, or
\* FileNotFoundError, or another OSError: NotADirectoryError for a path under
\* something that is no directory, PermissionError for a path under a
\* directory that may not be searched
Stat(o, t, u, m) == [out |-> o, type |-> t, uid |-> u, mode |-> m]
Missing == Stat("missing", "none", 0, 0)
NotDir  == Stat("notdir", "none", 0, 0)
Denied  == Stat("denied", "none", 0, 0)

\* the permission bits S_IMODE gives: 0o600, 0o644, 0o400, 0o4600
ModePool ==
    {S_IRUSR + S_IWUSR, S_IRUSR + S_IWUSR + 36, S_IRUSR, 2048 + S_IRUSR + S_IWUSR}

\* what a path of its own can be
TopPool ==
    {Missing, NotDir, Denied, Stat("ok", "dir", Getuid, 448),
     Stat("ok", "file", Getuid, S_IRUSR + S_IWUSR)}
    \cup {Stat("ok", "sock", u, m) : u \in {Getuid, 0}, m \in ModePool}

\* what <path>/socket can be, given what the path is
ChildPool(top) ==
    IF top.out = "ok" /\ top.type = "dir" THEN TopPool
    ELSE IF top.out = "ok" THEN {NotDir}
    ELSE {top}

PathP == <<"p">>
PathQ == <<"q">>

\* an optional string: the argument (None when not given) and SSHED_SOCK
\* (no such key when not set)
Given(t) == [set |-> TRUE, path |-> t]
NotGiven == [set |-> FALSE, path |-> <<>>]

NothingFound == [kind |-> "pending", path |-> <<>>]

FindIdle ==
    /\ fpc = "idle" /\ socket_address = NotGiven /\ environ = NotGiven
    /\ file_stats = <<>> /\ found = NothingFound

\* file_stats: for P and Q, the stats of the path and of <path>/socket; a
\* path that is not named by the call is missing
InitFind ==
    /\ fpc = "call"
    /\ socket_address \in {NotGiven, Given(<<>>), Given(PathP)}
    /\ environ \in {NotGiven, Given(<<>>), Given(PathQ)}
    /\ \E tp \in TopPool, tq \in TopPool :
         \E cp \in ChildPool(tp), cq \in ChildPool(tq) :
            /\ (socket_address.path # PathP => tp = Missing)
            /\ ((environ.path # PathQ \/ socket_address.path = PathP) => tq = Missing)
            /\ file_stats = <<[path |-> PathP, st |-> tp],
                              [path |-> PathP \o SocketSuffix, st |-> cp],
                              [path |-> PathQ, st |-> tq],
                              [path |-> PathQ \o SocketSuffix, st |-> cq]>>
    /\ found = NothingFound

\* os.stat(path): the empty path and a path nothing is known of are missing
OsStat(fs, path) ==
    IF \E i \in 1..Len(fs) : fs[i].path = path
    THEN fs[CHOOSE i \in 1..Len(fs) : fs[i].path = path].st
    ELSE Missing

\* the address find_socket works on: the argument unless it is None or
\* empty, else os.environ['SSHED_SOCK']
AddressUsed(arg, env) == IF arg.set /\ arg.path # <<>> THEN arg ELSE env

\* the checks on the stats of the socket: S_ISSOCK, st_uid, S_IMODE
SocketChecks(st) ==
    /\ st.type = "sock"
    /\ st.uid = Getuid
    /\ st.mode = S_IRUSR + S_IWUSR

\* find_socket(socket_address): [kind, path] with kind "path", "None", or
\* "raised" for an exception that leaves the function
FindSocket(arg, env, fs) ==
    LET addr == AddressUsed(arg, env)
        top  == OsStat(fs, addr.path)
        sub  == OsStat(fs, addr.path \o SocketSuffix)
    IN  IF ~addr.set THEN [kind |-> "None", path |-> <<>>]
        ELSE IF top.out = "missing" THEN [kind |-> "None", path |-> <<>>]
        ELSE IF top.out # "ok" THEN [kind |-> "raised", path |-> <<>>]
        ELSE IF top.type = "dir"
             THEN IF sub.out = "missing" THEN [kind |-> "None", path |-> <<>>]
                  ELSE IF sub.out # "ok" THEN [kind |-> "raised", path |-> <<>>]
                  ELSE IF SocketChecks(sub)
                       THEN [kind |-> "path", path |-> addr.path \o SocketSuffix]
                       ELSE [kind |-> "None", path |-> <<>>]
        ELSE IF SocketChecks(top) THEN [kind |-> "path", path |-> addr.path]
        ELSE [kind |-> "None", path |-> <<>>]

\* the call of find_socket
FindCall ==
    /\ fpc = "call"
    /\ found' = FindSocket(socket_address, environ, file_stats)
    /\ fpc' = "done"
    /\ UNCHANGED <<socket_address, environ, file_stats>>

NextFind ==
    \/ FindCall /\ UNCHANGED <<codecVars, sendVars, getVars, patchVars, guestVars, handlerVars, waitVars, sinkVars, loopVars>>

-----------------------------------------------------------------------------
(* wait_until_edit_or_exit: the loop that polls the editor and the file     *)

\* the turns of the loop a run is followed for
MaxPolls == 3
\* modification times run from 0 to MaxTime
MaxTime == 2

WaitIdle ==
    /\ wpc = "idle" /\ modified_time = 0 /\ sleep_time = 0 /\ exited = FALSE
    /\ mtime = 0 /\ polled = <<>> /\ looked = <<>> /\ slept = <<>>

InitWait ==
    /\ wpc = "poll"
    /\ modified_time \in 0..MaxTime
    /\ sleep_time \in {1, 2}
    /\ exited \in BOOLEAN
    /\ mtime \in 0..MaxTime
    /\ polled = <<>> /\ looked = <<>> /\ slept = <<>>

\* a file whose modification time is not after modified_time counts as edited
EditedNotBefore(m, t) == m >= t

\* os.path.getmtime(filename) > modified_time
Edited(m, t) == m > t

\* if process.poll() is not None: return
WaitPoll ==
    /\ wpc = "poll"
    /\ Len(polled) < MaxPolls
    /\ polled' = Append(polled, exited)
    /\ wpc' = IF exited THEN "returned" ELSE "look"
    /\ UNCHANGED <<modified_time, sleep_time, exited, mtime, looked, slept>>

\* if os.path.getmtime(filename) > modified_time: return
WaitLook ==
    /\ wpc = "look"
    /\ looked' = Append(looked, mtime)
    /\ wpc' = IF Edited(mtime, modified_time) THEN "returned" ELSE "sleep"
    /\ UNCHANGED <<modified_time, sleep_time, exited, mtime, polled, slept>>

\* time.sleep(sleep_time)
WaitSleep ==
    /\ wpc = "sleep"
    /\ slept' = Append(slept, sleep_time)
    /\ wpc' = "poll"
    /\ UNCHANGED <<modified_time, sleep_time, exited, mtime, polled, looked>>

\* the editor process ends
EditorExits ==
    /\ wpc \in {"poll", "look", "sleep"}
    /\ ~exited
    /\ exited' = TRUE
    /\ UNCHANGED <<wpc, modified_time, sleep_time, mtime, polled, looked, slept>>

\* the file is saved
FileSaved ==
    /\ wpc \in {"poll", "look", "sleep"}
    /\ mtime < MaxTime
    /\ mtime' = mtime + 1
    /\ UNCHANGED <<wpc, modified_time, sleep_time, exited, polled, looked, slept>>

NextWait ==
    \/ WaitPoll /\ UNCHANGED <<codecVars, sendVars, getVars, patchVars, guestVars, handlerVars, findVars, sinkVars, loopVars>>
    \/ WaitLook /\ UNCHANGED <<codecVars, sendVars, getVars, patchVars, guestVars, handlerVars, findVars, sinkVars, loopVars>>
    \/ WaitSleep /\ UNCHANGED <<codecVars, sendVars, getVars, patchVars, guestVars, handlerVars, findVars, sinkVars, loopVars>>
    \/ EditorExits /\ UNCHANGED <<codecVars, sendVars, getVars, patchVars, guestVars, handlerVars, findVars, sinkVars, loopVars>>
    \/ FileSaved /\ UNCHANGED <<codecVars, sendVars, getVars, patchVars, guestVars, handlerVars, findVars, sinkVars, loopVars>>

-----------------------------------------------------------------------------
(* get() and get(data_file=sink) on the same stream in the same chunks: two *)
(* handlers, each with a socket of its own that hands out the chunks in     *)
(* order and then the empty chunk.  A handler is a record: where it is in   *)
(* get(), self.buffer, the headers, the length, written, message, what has  *)
(* been written to the data_file, the chunks received, what get() returned. *)

\* the chunks a stream is cut into
MaxChunks == 4

Handler(pc, buf, hd, len, w, msg, file, taken, ret) ==
    [pc |-> pc, buffer |-> buf, headers |-> hd, length |-> len, written |-> w,
     message |-> msg, file |-> file, taken |-> taken, ret |-> ret]

\* nothing returned yet
NoReturn == [given |-> FALSE, headers |-> <<>>, none |-> TRUE, body |-> <<>>]
\* get() returned the headers and the data, or the headers alone
Returned(hd, isNone, d) == [given |-> TRUE, headers |-> hd, none |-> isNone, body |-> d]

NewHandler == Handler("headers", <<>>, <<>>, IntV(0), 0, <<>>, <<>>, 0, NoReturn)

RECURSIVE SumTo(_, _)
\* the bytes in the first k chunks
SumTo(c, k) == IF k = 0 THEN 0 ELSE c[k] + SumTo(c, k - 1)

\* socket.recv(BUFFER_SIZE) of a handler that has taken some chunks
NextChunk(h) ==
    IF h.taken < Len(chunking)
    THEN SubSeq(kstream, SumTo(chunking, h.taken) + 1, SumTo(chunking, h.taken + 1))
    ELSE <<>>

\* a data_file that is rewound before every write
FileWriteOver(file, data) == data

\* data_file.write(data) on a file whose position is its end
FileWrite(file, data) == file \o data

\* the length as a number over LenScale
LenInt(v) == IF v.kind = "Boolean" THEN (IF v.b THEN 1 ELSE 0) ELSE v.n
LenScale(v) == IF v.kind = "Float" THEN Pow10(v.e) ELSE 1

\* one turn of _get_headers: recv() while the terminator is missing, then
\* the split and the parse, and headers.get('Size', 0)
StepHeaders(h) ==
    IF FindTerminator(h.buffer) = -1
    THEN Handler(IF FindTerminator(h.buffer \o NextChunk(h)) = -1
                    /\ SocketClosed(NextChunk(h))
                 THEN "raised" ELSE "headers",
                 h.buffer \o NextChunk(h), h.headers, h.length, h.written,
                 h.message, h.file, h.taken + 1, h.ret)
    ELSE IF ParseRaises(Take(h.buffer, FindTerminator(h.buffer)))
    THEN Handler("error", Drop(h.buffer, FindTerminator(h.buffer) + 3), h.headers,
                 h.length, h.written, h.message, h.file, h.taken, h.ret)
    ELSE Handler("body", Drop(h.buffer, FindTerminator(h.buffer) + 3),
                 ParseHeaders(Take(h.buffer, FindTerminator(h.buffer))),
                 DictGet(ParseHeaders(Take(h.buffer, FindTerminator(h.buffer))),
                         SizeName, IntV(0)),
                 0, <<>>, h.file, h.taken, h.ret)

\* one turn of _get_bytes for a handler called with a data_file or without
StepBody(h, data_file) ==
    IF h.length.kind = "String"
    THEN Handler("error", h.buffer, h.headers, h.length, h.written, h.message,
                 h.file, h.taken, h.ret)
    ELSE IF ~(h.written * LenScale(h.length) < LenInt(h.length))
    THEN Handler("returned", h.buffer, h.headers, h.length, h.written, h.message,
                 h.file, h.taken, Returned(h.headers, TRUE, <<>>))
    ELSE IF (Len(h.buffer) + h.written) * LenScale(h.length) >= LenInt(h.length)
    THEN IF h.length.kind = "Float"
         THEN Handler("error", h.buffer, h.headers, h.length, h.written, h.message,
                      h.file, h.taken, h.ret)
         ELSE IF data_file
         THEN Handler("returned", LeaveBuffer(h.buffer, LenInt(h.length)), h.headers,
                      h.length, h.written, h.message,
                      FileWrite(h.file, TakeSegment(h.buffer, LenInt(h.length))),
                      h.taken, Returned(h.headers, TRUE, <<>>))
         ELSE Handler("returned", LeaveBuffer(h.buffer, LenInt(h.length)), h.headers,
                      h.length, h.written, h.message, h.file, h.taken,
                      Returned(h.headers, FALSE,
                               h.message \o TakeSegment(h.buffer, LenInt(h.length))))
    ELSE Handler(IF SocketClosed(NextChunk(h)) THEN "raised" ELSE "body",
                 NextChunk(h), h.headers, h.length, h.written + Len(h.buffer),
                 IF data_file THEN h.message ELSE h.message \o h.buffer,
                 IF data_file THEN FileWrite(h.file, h.buffer) ELSE h.file,
                 h.taken + 1, h.ret)

GetStep(h, data_file) ==
    IF h.pc = "headers" THEN StepHeaders(h) ELSE StepBody(h, data_file)

\* the streams: a packet and the start of the next, a packet without Size, a
\* packet cut short, a Size of 0 before other bytes, a Size that is no number
SinkStreams ==
    {SizeName \o <<COLON, "3", NL, NL, "a", "b", "c", "k", COLON>>,
     <<"k", COLON, "1", NL, NL, "x">>,
     SizeName \o <<COLON, "3", NL, NL, "a", "b">>,
     SizeName \o <<COLON, "0", NL, NL, "a", "b">>,
     SizeName \o <<COLON, "x", NL, NL, "a">>}

\* the ways to cut n bytes into at most MaxChunks chunks
Chunkings(n) ==
    {c \in UNION {[1..k -> 1..n] : k \in 1..MaxChunks} : SumTo(c, Len(c)) = n}

SinkIdle ==
    kstream = <<>> /\ chunking = <<>> /\ plain = NewHandler /\ filed = NewHandler

InitSink ==
    /\ kstream \in SinkStreams
    /\ chunking \in Chunkings(Len(kstream))
    /\ plain = NewHandler
    /\ filed = NewHandler

\* a turn of the handler called as get()
PlainStep ==
    /\ plain.pc \in {"headers", "body"}
    /\ plain' = GetStep(plain, FALSE)
    /\ UNCHANGED <<kstream, chunking, filed>>

\* a turn of the handler called as get(data_file=sink)
FiledStep ==
    /\ filed.pc \in {"headers", "body"}
    /\ filed' = GetStep(filed, TRUE)
    /\ UNCHANGED <<kstream, chunking, plain>>

NextSink ==
    \/ PlainStep /\ UNCHANGED <<codecVars, sendVars, getVars, patchVars, guestVars, handlerVars, findVars, waitVars, loopVars>>
    \/ FiledStep /\ UNCHANGED <<codecVars, sendVars, getVars, patchVars, guestVars, handlerVars, findVars, waitVars, loopVars>>

-----------------------------------------------------------------------------
(* The edit loop of handle(): from the start of the editor to the removal  *)
(* of the editing file.  The editor saves the file and exits at any time.  *)

MaxSaves == 3

\* what the editing file can hold after a save, as readlines() gives it
SavePool == {<<>>, <<<<"a", NL>>>>, <<<<"b", NL>>>>}

LoopIdle ==
    /\ lpc = "idle" /\ last_modified = 0 /\ editing_mtime = 0 /\ editing_lines = <<>>
    /\ host_original = <<>> /\ temporary_file = <<>> /\ editor_exited = FALSE
    /\ sent_updates = <<>> /\ removed = FALSE /\ saves = 0

\* the file of the guest is in original and in the editing file, its
\* modification time is in last_modified, and the editor has been started
InitLoop ==
    /\ lpc = "wait"
    /\ last_modified = 0
    /\ editing_mtime = 0
    /\ editing_lines \in SavePool
    /\ host_original = editing_lines
    /\ temporary_file = <<>>
    /\ editor_exited = FALSE
    /\ sent_updates = <<>>
    /\ removed = FALSE
    /\ saves = 0

\* a comparison that finds every file changed
NeverSame(original_lines, edited_lines) == FALSE

\* original_lines == edited_lines
SameLines(original_lines, edited_lines) == original_lines = edited_lines

\* the user saves the file in the editor: the modification time moves on
EditorSaves ==
    /\ lpc # "idle"
    /\ ~editor_exited
    /\ saves < MaxSaves
    /\ \E c \in SavePool : editing_lines' = c
    /\ editing_mtime' = editing_mtime + 1
    /\ saves' = saves + 1
    /\ UNCHANGED <<lpc, last_modified, host_original, temporary_file, editor_exited,
                   sent_updates, removed>>

\* the editor process ends
EditorQuits ==
    /\ lpc # "idle"
    /\ ~editor_exited
    /\ editor_exited' = TRUE
    /\ UNCHANGED <<lpc, last_modified, editing_mtime, editing_lines, host_original,
                   temporary_file, sent_updates, removed, saves>>

\* self.wait_until_edit_or_exit(editing.name, last_modified, editor) returns:
\* a poll() has found the process ended or a getmtime() a later time
LoopWait ==
    /\ lpc = "wait"
    /\ editor_exited \/ Edited(editing_mtime, last_modified)
    /\ lpc' = "compare"
    /\ UNCHANGED <<last_modified, editing_mtime, editing_lines, host_original,
                   temporary_file, editor_exited, sent_updates, removed, saves>>

\* if last_modified >= os.path.getmtime(editing.name): break
LoopCompare ==
    /\ lpc = "compare"
    /\ lpc' = IF last_modified >= editing_mtime THEN "remove" ELSE "stamp"
    /\ UNCHANGED <<last_modified, editing_mtime, editing_lines, host_original,
                   temporary_file, editor_exited, sent_updates, removed, saves>>

\* last_modified = os.path.getmtime(editing.name)
LoopStamp ==
    /\ lpc = "stamp"
    /\ last_modified' = editing_mtime
    /\ lpc' = "read"
    /\ UNCHANGED <<editing_mtime, editing_lines, host_original, temporary_file,
                   editor_exited, sent_updates, removed, saves>>

\* the editing file is opened and copied to temporary_file
LoopRead ==
    /\ lpc = "read"
    /\ temporary_file' = editing_lines
    /\ lpc' = "decide"
    /\ UNCHANGED <<last_modified, editing_mtime, editing_lines, host_original,
                   editor_exited, sent_updates, removed, saves>>

\* if original_lines == edited_lines: continue; else the edited lines are
\* sent, as a diff or whole, and original = temporary_file
LoopSend ==
    /\ lpc = "decide"
    /\ IF SameLines(host_original, temporary_file)
       THEN UNCHANGED <<sent_updates, host_original>>
       ELSE /\ sent_updates' = Append(sent_updates, temporary_file)
            /\ host_original' = temporary_file
    /\ lpc' = "wait"
    /\ UNCHANGED <<last_modified, editing_mtime, editing_lines, temporary_file,
                   editor_exited, removed, saves>>

\* os.remove(editing.name)
LoopRemove ==
    /\ lpc = "remove"
    /\ removed' = TRUE
    /\ lpc' = "done"
    /\ UNCHANGED <<last_modified, editing_mtime, editing_lines, host_original,
                   temporary_file, editor_exited, sent_updates, saves>>

\* the statements of handle(), as against the steps of the editor
LoopRuns ==
    \/ LoopWait \/ LoopCompare \/ LoopStamp \/ LoopRead \/ LoopSend \/ LoopRemove

NextLoop ==
    \/ EditorSaves /\ UNCHANGED <<codecVars, sendVars, getVars, patchVars, guestVars, handlerVars, findVars, waitVars, sinkVars>>
    \/ EditorQuits /\ UNCHANGED <<codecVars, sendVars, getVars, patchVars, guestVars, handlerVars, findVars, waitVars, sinkVars>>
    \/ LoopWait /\ UNCHANGED <<codecVars, sendVars, getVars, patchVars, guestVars, handlerVars, findVars, waitVars, sinkVars>>
    \/ LoopCompare /\ UNCHANGED <<codecVars, sendVars, getVars, patchVars, guestVars, handlerVars, findVars, waitVars, sinkVars>>
    \/ LoopStamp /\ UNCHANGED <<codecVars, sendVars, getVars, patchVars, guestVars, handlerVars, findVars, waitVars, sinkVars>>
    \/ LoopRead /\ UNCHANGED <<codecVars, sendVars, getVars, patchVars, guestVars, handlerVars, findVars, waitVars, sinkVars>>
    \/ LoopSend /\ UNCHANGED <<codecVars, sendVars, getVars, patchVars, guestVars, handlerVars, findVars, waitVars, sinkVars>>
    \/ LoopRemove /\ UNCHANGED <<codecVars, sendVars, getVars, patchVars, guestVars, handlerVars, findVars, waitVars, sinkVars>>

-----------------------------------------------------------------------------
(* Specifications: one per part of the program, and all of them together *)

InitOfCodec == InitCodec /\ SendIdle /\ GetIdle /\ PatchIdle /\ GuestIdle /\ HandlerIdle /\ FindIdle /\ WaitIdle /\ SinkIdle /\ LoopIdle
InitOfSend  == CodecIdle /\ InitSend /\ GetIdle /\ PatchIdle /\ GuestIdle /\ HandlerIdle /\ FindIdle /\ WaitIdle /\ SinkIdle /\ LoopIdle
InitOfGet   == CodecIdle /\ SendIdle /\ InitGet /\ PatchIdle /\ GuestIdle /\ HandlerIdle /\ FindIdle /\ WaitIdle /\ SinkIdle /\ LoopIdle
InitOfPatch == CodecIdle /\ SendIdle /\ GetIdle /\ InitPatch /\ GuestIdle /\ HandlerIdle /\ FindIdle /\ WaitIdle /\ SinkIdle /\ LoopIdle
InitOfPatcher == CodecIdle /\ SendIdle /\ GetIdle /\ InitPatcher /\ GuestIdle /\ HandlerIdle /\ FindIdle /\ WaitIdle /\ SinkIdle /\ LoopIdle
InitOfGuest == CodecIdle /\ SendIdle /\ InitGuest /\ HandlerIdle /\ FindIdle /\ WaitIdle /\ SinkIdle /\ LoopIdle
InitOfFind ==
    /\ LoopIdle
    /\ SinkIdle
    /\ WaitIdle
    /\ CodecIdle /\ SendIdle /\ GetIdle /\ PatchIdle /\ GuestIdle /\ HandlerIdle
    /\ InitFind
InitOfWait ==
    /\ LoopIdle
    /\ SinkIdle
    /\ CodecIdle /\ SendIdle /\ GetIdle /\ PatchIdle /\ GuestIdle /\ HandlerIdle
    /\ FindIdle /\ InitWait
InitOfSink ==
    /\ LoopIdle
    /\ CodecIdle /\ SendIdle /\ GetIdle /\ PatchIdle /\ GuestIdle /\ HandlerIdle
    /\ FindIdle /\ WaitIdle /\ InitSink
InitOfHandler ==
    /\ LoopIdle
    /\ SinkIdle
    /\ WaitIdle
    /\ CodecIdle /\ SendIdle /\ GetIdle /\ PatchIdle /\ GuestIdle /\ InitHandler
    /\ FindIdle

SpecCodec == InitOfCodec /\ [][NextCodec]_vars
SpecSend  == InitOfSend /\ [][NextSend]_vars
SpecGet   == InitOfGet /\ [][NextGet]_vars

\* get() is under way: in _get_headers or in _get_bytes
InGet == gpc \in {"headers", "body"}

\* a step of the call under way.  Every step of get() after the call leaves
\* the place it was at or counts one more recv(), and nothing else does so
\* while get() is under way: these are the steps of GetHeadersRecv,
\* GetHeadersParse, GetBytesTypeError, GetBytesNone, GetBytesTake and
\* GetBytesRecv
GetRuns ==
    /\ InGet
    /\ gpc' \in {"headers", "body", "ready", "raised", "error"}
    /\ nrecv' \in {nrecv, nrecv + 1}
    /\ (gpc' # gpc \/ nrecv' # nrecv)

\* one of the steps of get() can be taken wherever get() is under way
GetCanRun ==
    /\ gpc = "headers" => (FindTerminator(buffer) = -1 => RecvSizes # {})
    /\ gpc = "body"
       => \/ length.kind = "String"
          \/ length.kind \in {"Integer", "Boolean", "Float"} /\ ~WrittenBelowLength
          \/ length.kind \in {"Integer", "Boolean", "Float"} /\ BufferCovers
          \/ length.kind \in {"Integer", "Boolean", "Float"} /\ RecvSizes # {}

\* get() on a stream that holds one packet, or a part of one
InitOfGetLive ==
    /\ InitOfGet
    /\ Len(packets) = 1

SpecGetLive == InitOfGetLive /\ [][NextGet]_vars /\ WF_<<gpc, nrecv>>(GetRuns)
SpecPatch == InitOfPatch /\ [][NextPatch]_vars
SpecPatcher == InitOfPatcher /\ [][NextPatcher]_vars
SpecGuest == InitOfGuest /\ [][NextGuest]_vars
SpecHandler == InitOfHandler /\ [][NextHandler]_vars
SpecFind == InitOfFind /\ [][NextFind]_vars
SpecWait == InitOfWait /\ [][NextWait]_vars
SpecSink == InitOfSink /\ [][NextSink]_vars

InitOfLoop ==
    /\ CodecIdle /\ SendIdle /\ GetIdle /\ PatchIdle /\ GuestIdle /\ HandlerIdle
    /\ FindIdle /\ WaitIdle /\ SinkIdle /\ InitLoop

\* handle() runs on: wait_until_edit_or_exit polls until one of its two
\* conditions holds, and the statements of the loop follow one another
SpecLoop == InitOfLoop /\ [][NextLoop]_vars /\ WF_loopVars(LoopRuns)

Init ==
    \/ InitOfCodec \/ InitOfSend \/ InitOfGet \/ InitOfPatch \/ InitOfPatcher
    \/ InitOfGuest \/ InitOfHandler \/ InitOfFind \/ InitOfWait \/ InitOfSink
    \/ InitOfLoop
Next ==
    \/ NextCodec \/ NextSend \/ NextGet \/ NextPatch \/ NextGuest \/ NextHandler
    \/ NextFind \/ NextWait \/ NextSink \/ NextLoop
Spec == Init /\ [][Next]_vars

-----------------------------------------------------------------------------
(* Properties of PacketHandler.get, checked under SpecGet                   *)

\* the packet was written by send()
WellFormed(p) == p.wire = WireOf(p.h, p.c)

\* where the i-th packet ends in the stream
EndOf(i) == Len(WireOfAll(SubSeq(packets, 1, i)))

\* the headers and the body the i-th packet carries
SentHeaders(i) == DictSet(packets[i].h, SizeName, IntV(SensedSize(packets[i].c)))
SentBody(i) == IF packets[i].c.kind = "None" THEN <<>> ELSE packets[i].c.data

\* C1: for a stream that holds one well-formed packet, possibly followed by
\* further bytes, the first get() returns the same headers and the same body
\* however recv() splits the stream: what it returns under any chunking is
\* what it returns when a single recv() delivers the whole stream.
C1_ChunkingIndependent ==
    (/\ Len(results) >= 1
     /\ WellFormed(packets[1])
     /\ EndOf(1) <= Len(stream))
    => results[1] = GetWhole(stream)

\* C2: get() consumes exactly the header block, the terminator and Size body
\* bytes: every packet returned has the sent headers and a body of exactly
\* Size bytes, the sent ones, and once a get() has returned, the bytes
\* received beyond the packet's end are all in the buffer.
C2_ExactConsumption ==
    \A i \in 1..Len(results) :
        (i <= Len(packets) /\ \A j \in 1..i : WellFormed(packets[j]))
        => /\ results[i].headers = SentHeaders(i)
           /\ Len(results[i].body) = DictGet(results[i].headers, SizeName, IntV(0)).n
           /\ results[i].body = SentBody(i)
           /\ (i = Len(results) /\ gpc = "ready")
              => buffer = SubSeq(stream, EndOf(i) + 1, pos)

\* C3: the get() during which recv() returns zero bytes, before the header
\* terminator or before Size body bytes have arrived, raises
\* SocketClosedError and returns nothing; get() raises it in no other case.
C3_ClosedRaises ==
    /\ [][(sawEOF' /\ ~sawEOF) => (gpc' = "raised" /\ results' = results)]_vars
    /\ [](sawEOF <=> gpc = "raised")

\* the socket closed in the middle of a body, part of which had arrived
C3_Witness ==
    /\ gpc = "raised"
    /\ sawEOF
    /\ message # <<>>
    /\ written < LengthInt
    /\ results = <<>>

-----------------------------------------------------------------------------
(* Properties of the header codec, checked under SpecCodec                  *)

\* the one header the decoder returned
DecodedOne == cDecoded.headers[1]

\* the byte string holds the character
Holds(t, c) == FindChar(t, c) # 0

\* C4: header round trip: decoding the line that encodes a header gives the
\* mapping with that one header, the same name, the same value and the same
\* kind, whatever white space, colons and quotes the name and value hold.
C4_RoundTrip ==
    cpc = "decoded"
    => /\ ~cDecoded.raised
       /\ cDecoded.headers = <<Entry(cName, cValue)>>

\* C5: a String value that begins and ends with a double quote comes back
\* from encode and decode unchanged, its own quotes included.
C5_QuotedValueSurvives ==
    (/\ cpc = "decoded"
     /\ cName = <<"a">>
     /\ cValue.kind = "String"
     /\ ~Holds(cValue.s, NL)
     /\ StartsWith(cValue.s, <<QUOTE>>)
     /\ EndsWith(cValue.s, <<QUOTE>>))
    => /\ ~cDecoded.raised
       /\ Len(cDecoded.headers) = 1
       /\ DecodedOne.val = cValue

\* C6: decoding coerces the contents of a line in a fixed order, first match
\* wins: an integer literal gives Integer, else a floating-point literal gives
\* Float, else True or False gives Boolean, else String; None gives the
\* String None; the value has one of the four kinds.  255 gives Integer 255
\* and 3.1415927 a Float.
C6_CoercionOrder ==
    (cpc = "received" /\ ~Holds(cName, COLON) /\ ~Holds(cValue.s, NL))
    => LET t == Strip(cValue.s)
           v == DecodedOne.val
       IN  /\ ~cDecoded.raised
           /\ Len(cDecoded.headers) = 1
           /\ v.kind \in Kinds
           /\ IsIntLiteral(t) => v = IntV(IntOf(t))
           /\ (~IsIntLiteral(t) /\ IsFloatLiteral(t)) => v = FloatOf(t)
           /\ (~IsIntLiteral(t) /\ ~IsFloatLiteral(t) /\ t \in {TrueText, FalseText})
              => v = BoolV(t = TrueText)
           /\ (~IsIntLiteral(t) /\ ~IsFloatLiteral(t) /\ t \notin {TrueText, FalseText})
              => v.kind = "String"
           /\ t = NoneText => v = StrV(NoneText)
           /\ t = <<"2", "5", "5">> => v = IntV(255)
           /\ t = <<"3", ".", "1", "4", "1", "5", "9", "2", "7">> => v = FloatV(31415927, 7)

\* the line with the contents None has been decoded to the String None
C6_Witness ==
    /\ cpc = "received"
    /\ cName = <<"a">>
    /\ cValue.s = NoneText
    /\ cDecoded.headers = <<Entry(<<"a">>, StrV(NoneText))>>

\* the String has to be quoted: white space at an end, or contents that
\* would decode as Integer, Float or Boolean
NeedsQuotes(t) ==
    SpaceAtEnds(t) \/ IsIntLiteral(t) \/ IsFloatLiteral(t) \/ t \in {TrueText, FalseText}

\* the encoded line holds the quoted String once and decodes to the String;
\* other kinds are written as their text, unquoted
QuotedOnce ==
    /\ cValue.kind = "String" /\ NeedsQuotes(cValue.s)
       => /\ cLine = WireName(cName) \o <<COLON, " ">> \o Quoted(cValue.s) \o <<NL>>
          /\ ~Holds(cName, COLON)
             => /\ ~cDecoded.raised
                /\ Len(cDecoded.headers) = 1
                /\ DecodedOne.val = cValue
    /\ cValue.kind # "String"
       => cLine = WireName(cName) \o <<COLON, " ">> \o ValueText(cValue) \o <<NL>>

\* C7: every String that would decode as Integer, Float or Boolean
\* unquoted, and every String with white space at an end, is written in
\* double quotes once and the line decodes to the String; Integer, Float and
\* Boolean values are written unquoted.
C7_QuotedOnceAnyString ==
    cpc = "decoded" => QuotedOnce

\* The statement of C7 for the Strings that hold no line feed
QuotedOnceOnOneLine ==
    (cpc = "decoded" /\ ~Holds(cValue.s, NL)) => QuotedOnce

-----------------------------------------------------------------------------
(* Properties of PacketHandler.send, checked under SpecSend                 *)

\* the length of the body the caller gave: all bytes of the bytes object or
\* of the file, none when there is no body
ActualLength == Len(sGiven.data)

\* the line that announces the body's length
SizeLine == SizeName \o <<COLON, " ">> \o IntText(ActualLength) \o <<NL>>

\* the header lines written: the sendall() calls before the blank line
HeaderCalls == Len(sent) - (IF sGiven.kind = "None" THEN 1 ELSE 2)

\* C8: in the packet send() has written there is one Size line and it gives
\* the actual length of the body in bytes (the length of the bytes object,
\* the full length of the file whatever its position, 0 without a body),
\* whatever Size the caller supplied.
C8_SizeOnWire ==
    spc = "done"
    => /\ \E i \in 1..HeaderCalls : sent[i] = SizeLine
       /\ \A i \in 1..HeaderCalls :
              StartsWith(sent[i], SizeName \o <<COLON>>) => sent[i] = SizeLine

\* a file read part of the way has been sent under a mapping whose Size was
\* another number
C8_Witness ==
    /\ spc = "done"
    /\ sGiven.kind = "file"
    /\ sGiven.at > 0
    /\ HasKey(sCaller, SizeName)
    /\ DictGet(sCaller, SizeName, IntV(0)) # IntV(ActualLength)

\* the packet of the scenario: Version 1 and Filename a.txt with body hello
ScenarioHeaders == <<Entry(VersionName, IntV(1)), Entry(FilenameName, StrV(ATxt))>>

ScenarioWire ==
    VersionName \o <<COLON, " ", "1", NL>>
    \o FilenameName \o <<COLON, " ">> \o ATxt \o <<NL>>
    \o SizeName \o <<COLON, " ", "5", NL>>
    \o <<NL>>
    \o Hello

\* C9: send() writes one line per header in the mapping's order, Size in the
\* caller's place for it or last, then one blank-line terminator, then the
\* Size bytes of the body and nothing more; without a body the blank line is
\* the last write.  Version 1 and Filename a.txt with body hello give the
\* bytes Version: 1\nFilename: a.txt\nSize: 5\n\nhello.
C9_WireOrder ==
    spc = "done"
    => LET n == Len(sCaller)
           m == IF HasKey(sCaller, SizeName) THEN n ELSE n + 1
       IN  /\ Len(sent) = m + 1 + (IF sGiven.kind = "None" THEN 0 ELSE 1)
           /\ \A i \in 1..n :
                  sent[i] = IF sCaller[i].name = SizeName
                            THEN SizeLine
                            ELSE GenerateHeaderBytes(sCaller[i].name, sCaller[i].val)
           /\ m = n + 1 => sent[m] = SizeLine
           /\ sent[m + 1] = <<NL>>
           /\ sGiven.kind # "None"
              => sent[m + 2] = sGiven.data /\ Len(sent[m + 2]) = ActualLength
           /\ (sCaller = ScenarioHeaders /\ sGiven = BytesOf(Hello))
              => Concat(sent) = ScenarioWire

\* the packet of the scenario has been written
C9_Witness ==
    /\ spc = "done"
    /\ sCaller = ScenarioHeaders
    /\ sGiven = BytesOf(Hello)
    /\ Concat(sent) = ScenarioWire

-----------------------------------------------------------------------------
(* Properties of the diff and the Patcher, checked under SpecPatch          *)

\* C10: diff and patch round trip: for any original lines O and edited
\* lines E, the Patcher applied to O with the unified diff of (O, E), joined,
\* encoded and split into lines again, ends without an error and its output
\* is exactly E.
C10_PatchRoundTrip ==
    ppc \in {"done", "malformed", "error"}
    => /\ ppc = "done"
       /\ Concat(output) = Concat(edited)

-----------------------------------------------------------------------------
(* Properties of the Patcher on any diff, checked under SpecPatcher         *)

\* the line of the hunk that patch() looks at next, when there is one
AtHunkLine ==
    /\ ppc = "patch"
    /\ hunkIdx <= Len(hunks)
    /\ lineIdx >= 1
    /\ lineIdx + 1 <= Len(hunks[hunkIdx])

HunkLine == hunks[hunkIdx][lineIdx + 1]

\* the line is a Removed or a Context line and its content is not the line
\* of the original at the cursor, or the original has no line left
CursorMismatch ==
    /\ AtHunkLine
    /\ HunkLine[1] \in {"-", " "}
    /\ \/ rpos >= Len(original)
       \/ original[rpos + 1] # Tail(HunkLine)

\* C11: patch() raises MalformedDiff whenever the content of a Removed or a
\* Context line differs from the original line at the cursor, also when the
\* original is exhausted, and nothing happens after the raise.
C11_MismatchRaises ==
    /\ [][CursorMismatch => ppc' = "malformed"]_vars
    /\ [][ppc # "malformed"]_vars

\* a line of the input that _get_hunks drops
Dropped(line) ==
    StartsWith(line, <<"-", "-", "-">>) \/ StartsWith(line, <<"+", "+", "+">>)

KeptLine(line) == ~Dropped(line)

\* C12: _get_hunks splits the diff into hunks in order: lines starting with
\* --- or +++ are dropped, a line starting with @@ is always the first of a
\* hunk, every hunk after the first starts with such a line, no hunk is
\* empty, and the hunks concatenated are the input without the dropped lines.
C12_HunksPartition ==
    [][(ppc = "split" /\ ppc' = "patch")
       => /\ Concat(hunks') = SelectSeq(diff, KeptLine)
          /\ \A k \in 1..Len(hunks') :
               /\ hunks'[k] # <<>>
               /\ k > 1 => StartsWith(hunks'[k][1], <<"@", "@">>)
               /\ \A i \in 2..Len(hunks'[k]) :
                      ~StartsWith(hunks'[k][i], <<"@", "@">>)]_vars

\* a diff of two hunks, the second with an added line, has been split
C12_Witness ==
    /\ ppc = "patch"
    /\ hunkIdx = 1 /\ lineIdx = 0
    /\ hunks = <<<<HunkAt1>>, <<HunkAt2, <<"+", "b", NL>>>>>>

\* C13: _get_hunks returns no hunk for an input without a line that starts
\* with @@.
C13_NoHeaderNoHunks ==
    [][(/\ ppc = "split" /\ ppc' = "patch"
        /\ \A i \in 1..Len(diff) : ~StartsWith(diff[i], <<"@", "@">>))
       => hunks' = <<>>]_vars

-----------------------------------------------------------------------------
(* Properties of send_diff and of the diff it generates, under SpecPatch    *)

\* C15: send_diff sends the diff only when the serialized diff is strictly
\* shorter than the edited content; when it is as long or longer, the full
\* content is sent.
C15_DiffOnlyIfSmaller ==
    ppc # "start"
    => (sent_diff <=> Len(diff_bytes) < EditedLength(edited))

\* the one hunk of the scenario, with its lines of context
ScenarioHunk ==
    <<<<"@", "@", " ", "-", "1", ",", "3", " ", "+", "1", ",", "3", " ", "@", "@", NL>>,
      <<" ", "A", NL>>, <<"-", "B", NL>>, <<"+", "X", NL>>, <<" ", "C", NL>>>>

InScenario == original = ScenarioOriginal /\ edited = ScenarioEdited /\ ppc = "done"

HasLine(hunk, line) == \E i \in 2..Len(hunk) : hunk[i] = line

\* C18 as the scenario states it: for the original A, B, C and the edited
\* A, X, C the diff has one hunk, the hunk starts at line 2 of the original
\* and holds the Removed line B and the Added line X, and the patched
\* original is the edited file.
C18_HunkAtLineTwo ==
    InScenario
    => /\ Len(hunks) = 1
       /\ StartLine(hunks[1][1]) = 2
       /\ HasLine(hunks[1], <<"-", "B", NL>>)
       /\ HasLine(hunks[1], <<"+", "X", NL>>)
       /\ output = edited

\* C18: for the original A, B, C and the edited A, X, C the diff has one
\* hunk; the hunk starts at line 1 of the original, with the header
\* @@ -1,3 +1,3 @@, and holds the Context line A, the Removed line B, the
\* Added line X and the Context line C; the patched original is the edited
\* file.
C18_HunkAtLineOne ==
    InScenario
    => /\ Len(hunks) = 1
       /\ StartLine(hunks[1][1]) = 1
       /\ hunks[1] = ScenarioHunk
       /\ output = edited

\* the scenario's diff has been generated and applied
C18_Witness ==
    /\ InScenario
    /\ hunks = <<ScenarioHunk>>
    /\ output = ScenarioEdited

-----------------------------------------------------------------------------
(* C14: in the guest's loop the file is overwritten only when get() has     *)
(* returned a whole packet and, for a differential one, patch() has         *)
(* returned: when patch raises MalformedDiff, when get() raises, or when    *)
(* the connection closes inside a packet, the file holds exactly what it    *)
(* held when get() was called.                                              *)

\* the loop has ended: by an error main does not catch, or by its return
GuestEnded == ppc \in {"malformed", "error", "exited"}

C14_NoPartialUpdate ==
    /\ [](GuestEnded => original = file_before)
    /\ [](ppc \in {"get", "split", "patch", "done"} => original = file_before)
    /\ [][original' # original =>
             /\ gpc = "ready"
             /\ results # <<>>
             /\ ~LastResult.none
             /\ \/ ppc = "done" /\ IsDifferential(LastResult)
                \/ ppc = "get" /\ ~IsDifferential(LastResult)]_vars

\* a diff whose first line applied and whose second did not: patch raised
\* with part of the output written, and the file is as it was
C14_Witness ==
    /\ ppc = "malformed"
    /\ output # <<>>
    /\ original = file_before
    /\ original = GuestFile

-----------------------------------------------------------------------------
(* C17: SocketClosedError raised by get() reaches main's loop, which then   *)
(* returns 0 and leaves the file as it is; main returns 0 in no other case; *)
(* and after every update that went through the loop calls get() again.     *)

C17_CleanEnd ==
    /\ [][(ppc = "get" /\ gpc = "raised") =>
             ppc' = "exited" /\ exit_status' = <<0>> /\ original' = original]_vars
    /\ [](exit_status # <<>> =>
             exit_status = <<0>> /\ ppc = "exited" /\ gpc = "raised" /\ sawEOF)
    /\ [](ppc = "exited" => exit_status = <<0>> /\ original = file_before)
    /\ [][ppc = "exited" => ppc' = "exited" /\ original' = original]_vars
    /\ [][ppc' = "wait" => (ppc \in {"get", "done"} /\ gpc = "ready")]_vars
    /\ [][ppc = "wait" => (ppc' = "get" /\ gpc' = "headers")]_vars

\* the session ended with status 0 after an update changed the file
C17_Witness ==
    /\ ppc = "exited"
    /\ exit_status = <<0>>
    /\ results # <<>>
    /\ original # GuestFile

-----------------------------------------------------------------------------
(* C16: the handler goes on past the check of the version, and starts the   *)
(* editor, only when the Version header of the first packet is the Integer  *)
(* 1; a missing Version, a String, a Float and a Boolean are rejected.      *)

VersionHeader == DictGet(hHeaders, VersionName, NoneV)

-----------------------------------------------------------------------------
(* C19: find_socket returns a path only if that path exists, is a socket,   *)
(* is owned by the current user and has the permission bits 0o600 exactly,  *)
(* the path being <address>/socket when the address is a directory; in      *)
(* every other case it returns None.                                        *)

\* the stats of the path find_socket returned
FoundStats == OsStat(file_stats, found.path)

\* a path is returned only for a socket of the user with mode 0o600
OnlyValidSocket ==
    (fpc = "done" /\ found.kind = "path") =>
        /\ FoundStats.out = "ok"
        /\ FoundStats.type = "sock"
        /\ FoundStats.uid = Getuid
        /\ FoundStats.mode = S_IRUSR + S_IWUSR
        /\ LET addr == AddressUsed(socket_address, environ)
           IN  found.path = IF OsStat(file_stats, addr.path).type = "dir"
                            THEN addr.path \o SocketSuffix ELSE addr.path

C19_PathOrNone ==
    /\ OnlyValidSocket
    /\ (fpc = "done" /\ found.kind # "path") => found.kind = "None"

-----------------------------------------------------------------------------
(* C20: wait_until_edit_or_exit returns only when the editor has exited or  *)
(* the file's modification time is strictly greater than modified_time; in  *)
(* each turn it polls the process first and does not look at the file if    *)
(* the process has exited; and it sleeps once, for sleep_time, after every  *)
(* turn in which neither held.                                              *)

\* what the last poll() and the last getmtime() gave
LastPolled == polled[Len(polled)]
LastLooked == looked[Len(looked)]

C20_WaitLoop ==
    /\ [](wpc = "returned" =>
            \/ LastPolled /\ exited
            \/ ~LastPolled /\ Len(looked) = Len(polled)
                 /\ LastLooked > modified_time /\ mtime > modified_time)
    /\ [](wpc # "idle" =>
            /\ \A i \in 1..Len(looked) : ~polled[i] /\ looked[i] <= mtime
            /\ \A i \in 1..(Len(looked) - 1) : looked[i] <= modified_time
            /\ Len(looked) = IF wpc \in {"look"} \/ (wpc = "returned" /\ LastPolled)
                              THEN Len(polled) - 1 ELSE Len(polled)
            /\ Len(slept) = IF wpc \in {"poll"} THEN Len(polled) ELSE Len(polled) - 1
            /\ \A i \in 1..Len(slept) : slept[i] = sleep_time)
    /\ [][looked' # looked => (wpc = "look" /\ ~LastPolled /\ polled' = polled)]_vars
    /\ [][slept' # slept =>
             /\ wpc = "sleep"
             /\ ~LastPolled
             /\ LastLooked <= modified_time
             /\ Len(slept') = Len(polled)]_vars
    /\ [][(wpc = "look" /\ mtime <= modified_time /\ looked' # looked) => wpc' = "sleep"]_vars

\* two turns passed with a sleep each, and the third found the file saved
C20_Witness ==
    /\ wpc = "returned"
    /\ Len(polled) = 3
    /\ Len(slept) = 2
    /\ ~LastPolled
    /\ looked[2] = modified_time
    /\ LastLooked = modified_time + 1

-----------------------------------------------------------------------------
(* C21: a header line is split into name and contents at its first colon    *)
(* only: further colons stay in the contents, and the white space around    *)
(* the name and around the contents is trimmed before the quotes are taken  *)
(* off.                                                                     *)

\* the text of the line that was received, without its line feed
WireLine == cName \o <<COLON>> \o cValue.s

\* the place of the first colon of the line
FirstColon(t) == CHOOSE i \in 1..Len(t) : t[i] = COLON /\ \A j \in 1..(i - 1) : t[j] # COLON

ColonCount(t) == Cardinality({i \in 1..Len(t) : t[i] = COLON})

C21_FirstColonOnly ==
    (cpc = "received" /\ ~Holds(WireLine, NL))
    => LET before == SubSeq(WireLine, 1, FirstColon(WireLine) - 1)
           after  == SubSeq(WireLine, FirstColon(WireLine) + 1, Len(WireLine))
       IN  /\ ~cDecoded.raised
           /\ Len(cDecoded.headers) = 1
           /\ DecodedOne.name = Unquote(Strip(before))
           /\ DecodedOne.val = Coerce(Strip(after))
           /\ DecodedOne.val.kind = "String"
              => /\ DecodedOne.val.s = Unquote(Strip(after))
                 /\ ColonCount(DecodedOne.val.s) = ColonCount(WireLine) - 1

\* the line a: :a has been decoded: the second colon is in the contents
C21_Witness ==
    /\ cpc = "received"
    /\ cName = <<"a">>
    /\ cValue.s = <<" ", COLON, "a">>
    /\ cDecoded.headers = <<Entry(<<"a">>, StrV(<<COLON, "a">>))>>

-----------------------------------------------------------------------------
(* C22: a name in double quotes on the wire decodes to the text between the *)
(* quotes, a colon or white space at its ends included: "a:b": v gives the  *)
(* name a:b with the contents v; and the encoder quotes every name that     *)
(* holds white space at an end or a colon.                                  *)

\* the name on the wire is wrapped in double quotes
NameIsQuoted == Len(cName) >= 2 /\ StartsWith(cName, <<QUOTE>>) /\ EndsWith(cName, <<QUOTE>>)

C22_QuotedName ==
    /\ (cpc = "received" /\ NameIsQuoted /\ ~Holds(WireLine, NL))
       => /\ ~cDecoded.raised
          /\ Len(cDecoded.headers) = 1
          /\ DecodedOne.name = SubSeq(cName, 2, Len(cName) - 1)
          /\ DecodedOne.val = Coerce(Strip(cValue.s))
    /\ (cpc = "encoded" /\ (SpaceAtEnds(cName) \/ Holds(cName, COLON)))
       => StartsWith(cLine, Quoted(cName) \o <<COLON>>)

-----------------------------------------------------------------------------
(* C23: a header block with a line that is not name: contents, and a packet *)
(* whose Size is present but no Integer, fail with an error of their own:   *)
(* get() returns no packet for them and does not end in SocketClosedError   *)
(* because of them.                                                         *)

\* the Size header of a packet get() returned, None without one
SizeOf(r) == DictGet(r.headers, SizeName, NoneV)

C23_MalformedRejected ==
    /\ \A i \in 1..Len(results) : SizeOf(results[i]).kind \in {"None", "Integer"}
    /\ (gpc = "raised" /\ written > 0) => length.kind = "Integer"

-----------------------------------------------------------------------------
(* C24: a packet with Size 0 or without a Size header is returned by get()  *)
(* as its headers and an empty byte sequence, and no recv() is issued after *)
(* the terminator is in the buffer.                                         *)

C24_EmptyBody ==
    \A i \in 1..Len(results) :
        SizeOf(results[i]) \in {NoneV, IntV(0)}
        => ~results[i].none /\ results[i].body = <<>>

-----------------------------------------------------------------------------
(* C26: after SocketClosedError, raised while waiting for the terminator or *)
(* while reading the body, the handler's buffer is empty.                   *)

C26_BufferEmptyAfterClose == gpc = "raised" => buffer = <<>>

-----------------------------------------------------------------------------
(* C27: get() calls recv() only while its buffer lacks the terminator or    *)
(* the rest of the body; every recv() asks for 4096 bytes and takes one     *)
(* chunk off the stream; the step that completes a packet calls none.       *)

\* the buffer does not hold the rest of the body
BodyLacking ==
    /\ gpc = "body"
    /\ length.kind \in {"Integer", "Boolean", "Float"}
    /\ (Len(buffer) + written) * LengthScale < LengthInt

C27_RecvOnlyWhenNeeded ==
    /\ [][nrecv' # nrecv =>
             /\ nrecv' = nrecv + 1
             /\ bufsize' = 4096
             /\ pos' - pos <= 4096
             /\ (pos' = pos) = (pos = Len(stream))
             /\ \/ gpc = "headers" /\ FindTerminator(buffer) = -1
                \/ BodyLacking]_vars
    /\ [][(nrecv' = nrecv) => (pos' = pos /\ bufsize' = bufsize)]_vars
    /\ [][results' # results => nrecv' = nrecv]_vars
    /\ [](bufsize \in {0, 4096} /\ (bufsize = 0) = (nrecv = 0))

\* two packets came in one chunk: the second get() called recv() not once
C27_Witness ==
    /\ gpc = "ready"
    /\ Len(results) = 2
    /\ nrecv = 1
    /\ ~results[2].none

-----------------------------------------------------------------------------
(* C25: on the same stream in the same chunks, get(data_file=sink) writes   *)
(* to the sink the bytes that get() returns as the body, returns the same   *)
(* headers and leaves the same bytes in the buffer; and the two calls end   *)
(* alike: both return, or both raise the same error.                        *)

Ended(h) == h.pc \in {"returned", "raised", "error"}

\* the bytes of a returned body: none for None
BodyBytesOf(r) == IF r.none THEN <<>> ELSE r.body

C25_SinkSameAsBody ==
    (Ended(plain) /\ Ended(filed))
    => /\ plain.pc = filed.pc
       /\ plain.buffer = filed.buffer
       /\ plain.taken = filed.taken
       /\ plain.pc = "returned"
          => /\ filed.file = BodyBytesOf(plain.ret)
             /\ filed.ret.headers = plain.ret.headers
             /\ filed.ret.none
             /\ filed.message = <<>>

\* a body that came in two chunks, the second with bytes of the next packet
C25_Witness ==
    /\ plain.pc = "returned"
    /\ filed.pc = "returned"
    /\ chunking = <<7, 2, 4>>
    /\ plain.taken = 3
    /\ Len(filed.file) >= 3
    /\ filed.file = plain.ret.body
    /\ filed.buffer # <<>>

(***************************************************************************)
(* C28: patch copies every line of the original that no hunk covers, the   *)
(* lines before a hunk's start line, those between two hunks and those     *)
(* after the last hunk, to the output as they are, once each and in the    *)
(* order of the original; with no hunk at all the output is the original.  *)
(***************************************************************************)

NotEmpty(line) == line # <<>>

\* what the writes so far put into the output: writing b'' adds nothing
Written(out) == SelectSeq(out, NotEmpty)

\* the first number of a hunk header's second word, read digit by digit
HeaderStart(header) ==
    LET word == SplitWhitespace(header)[2]
        stop == IF FindChar(word, ",") = 0 THEN Len(word) + 1 ELSE FindChar(word, ",")
    IN  IntOf(SubSeq(word, 2, stop - 1))

C28_UnchangedCopied ==
    /\ [][(ppc = "patch" /\ lineIdx = 0 /\ lineIdx' = 1)
          => LET before == Max(0, HeaderStart(hunks[hunkIdx][1]) - line_number)
                 copied == Min(before, Len(original) - rpos)
             IN  /\ rpos' = rpos + copied
                 /\ Written(output') =
                        Written(output) \o SubSeq(original, rpos + 1, rpos + copied)]_vars
    /\ [][(ppc = "patch" /\ ppc' = "done")
          => /\ rpos' = Len(original)
             /\ Written(output') =
                    Written(output) \o SubSeq(original, rpos + 1, Len(original))]_vars
    /\ [][(ppc = "patch" /\ ppc' \in {"patch", "done"})
          => (rpos' >= rpos /\ original' = original)]_vars
    /\ [](ppc = "done" /\ hunks = <<>> => Written(output) = original)

\* a line copied between two hunks and one copied after the last
C28_Witness ==
    /\ ppc = "done"
    /\ original = <<<<"a", NL>>, <<"b", NL>>, <<"a", NL>>>>
    /\ hunks = <<<<HunkAt1, <<"-", "a", NL>>>>, <<HunkAt3>>>>
    /\ Written(output) = <<<<"b", NL>>, <<"a", NL>>>>

(***************************************************************************)
(* C29: in a hunk whose header is an @@ line, the start line is the first  *)
(* number after the minus sign of the header's second word; a Removed or   *)
(* Context line that matches the original line at the cursor moves the     *)
(* cursor by one line, an Added line does not move it; a Context line and  *)
(* an Added line each emit their content, at the end of the output and so  *)
(* in hunk order, and a Removed line emits nothing.  Over a whole hunk the *)
(* cursor so advances by c + r lines and the c + a contents are emitted.   *)
(***************************************************************************)

\* the original has a line at the cursor and the diff line repeats it
MatchesAtCursor(line) == rpos < Len(original) /\ original[rpos + 1] = Tail(line)

InHeadedHunk ==
    /\ ppc = "patch"
    /\ hunkIdx <= Len(hunks)
    /\ IsHunkHeader(hunks[hunkIdx][1])

C29_HunkApplied ==
    /\ [][(InHeadedHunk /\ lineIdx = 0 /\ lineIdx' = 1)
          => line_number' = Max(line_number, HeaderStart(hunks[hunkIdx][1]))]_vars
    /\ [][(InHeadedHunk /\ lineIdx >= 1 /\ lineIdx' = lineIdx + 1)
          => /\ (HunkLine[1] = "-" /\ MatchesAtCursor(HunkLine))
                => (ppc' = "patch" /\ rpos' = rpos + 1 /\ output' = output
                    /\ line_number' = line_number + 1)
             /\ (HunkLine[1] = " " /\ MatchesAtCursor(HunkLine))
                => (ppc' = "patch" /\ rpos' = rpos + 1
                    /\ output' = Append(output, Tail(HunkLine))
                    /\ line_number' = line_number + 1)
             /\ HunkLine[1] = "+"
                => (ppc' = "patch" /\ rpos' = rpos
                    /\ output' = Append(output, Tail(HunkLine))
                    /\ line_number' = line_number)]_vars

\* the second line replaced: one line removed, one added, one kept
C29_Witness ==
    /\ ppc = "done"
    /\ hunks = <<ReplaceDiff>>
    /\ original = <<<<"a", NL>>, <<"b", NL>>, <<"a", NL>>>>
    /\ rpos = 3
    /\ line_number = 4
    /\ output = <<<<"a", NL>>, <<"c", NL>>, <<"a", NL>>>>

(***************************************************************************)
(* C30: of a diff whose lines before the first @@ line are file lines,     *)
(* _get_hunks ignores those lines only: every line from the first @@ line  *)
(* on is a line of a hunk, a Removed line whose content begins with -- and *)
(* an Added line whose content begins with ++ among them.                  *)
(***************************************************************************)

\* the place of the first @@ line of a diff, or one past its end
FirstHeaderAt(d) ==
    IF \E i \in 1..Len(d) : IsHunkHeader(d[i])
    THEN CHOOSE i \in 1..Len(d) :
             /\ IsHunkHeader(d[i])
             /\ \A j \in 1..(i - 1) : ~IsHunkHeader(d[j])
    ELSE Len(d) + 1

C30_HunkLinesKept ==
    [][(/\ ppc = "split" /\ ppc' = "patch"
        /\ \A i \in 1..(FirstHeaderAt(diff) - 1) : IsFileLine(diff[i]))
       => Concat(hunks') = SubSeq(diff, FirstHeaderAt(diff), Len(diff))]_vars

(***************************************************************************)
(* C36: every hunk that _get_hunks returns begins with an @@ line, so that *)
(* patch finds a start line in the first line of each hunk; the lines      *)
(* before the first @@ line are in no hunk.                                *)
(***************************************************************************)

C36_HunksHeaded ==
    \A k \in 1..Len(hunks) :
        /\ StartsWith(hunks[k][1], <<"@", "@">>)
        /\ Len(SplitWhitespace(hunks[k][1])) >= 2

(***************************************************************************)
(* C39: _get_hunks empties the list it is given: when the Patcher is built *)
(* the caller's diff has no line left, and a second Patcher built from the *)
(* same list has no hunk.                                                  *)
(***************************************************************************)

C39_DiffConsumed ==
    [][(ppc = "split" /\ ppc' = "patch")
       => (diff' = <<>> /\ GetHunks(diff') = <<>>)]_vars

\* the Patcher of a diff of two lines with one hunk has been built
C39_Witness ==
    /\ ppc = "patch"
    /\ hunkIdx = 1 /\ lineIdx = 0
    /\ hunks = <<<<HunkAt1, <<"-", "a", NL>>>>>>
    /\ diff = <<>>

(***************************************************************************)
(* C37: send() changes the mapping of its caller only in the Size entry:   *)
(* the other entries keep their values and all entries their order; a Size *)
(* the caller gave stays where it was and a new Size is the last entry.    *)
(***************************************************************************)

C37_OnlySizeSet ==
    /\ [](spc # "start"
          => IF \E i \in 1..Len(sCaller) : sCaller[i].name = SizeName
             THEN /\ Len(sHeaders) = Len(sCaller)
                  /\ \A i \in 1..Len(sCaller) :
                         /\ sHeaders[i].name = sCaller[i].name
                         /\ sCaller[i].name # SizeName => sHeaders[i] = sCaller[i]
             ELSE /\ Len(sHeaders) = Len(sCaller) + 1
                  /\ SubSeq(sHeaders, 1, Len(sCaller)) = sCaller
                  /\ sHeaders[Len(sHeaders)].name = SizeName)
    /\ [][spc # "start" => sHeaders' = sHeaders]_vars

\* the caller gave Size as the first of two entries and the packet is sent
C37_Witness ==
    /\ spc = "done"
    /\ Len(sCaller) = 2
    /\ sCaller[1].name = SizeName
    /\ sHeaders[1].name = SizeName
    /\ sHeaders[1] # sCaller[1]
    /\ sHeaders[2] = sCaller[2]

(***************************************************************************)
(* C38: a header whose str value is empty, or whose name is empty, is not  *)
(* encoded: the encoder raises.  Inside send() the lines of the headers    *)
(* before it have been written by then and nothing else is written: the    *)
(* stream holds those lines alone, without the blank line and the body.    *)
(***************************************************************************)

\* the entry has an empty name or an empty str for its value
EmptyEntry(e) == e.name = <<>> \/ (e.val.kind = "String" /\ e.val.s = <<>>)

C38_EmptyHeaderRaises ==
    /\ [][(spc = "headers" /\ sIdx <= Len(sHeaders) /\ EmptyEntry(sHeaders[sIdx]))
          => (spc' = "raised" /\ sent' = sent)]_vars
    /\ [](spc = "raised"
          => /\ sIdx <= Len(sHeaders)
             /\ EmptyEntry(sHeaders[sIdx])
             /\ Len(sent) = sIdx - 1
             /\ \A i \in 1..Len(sent) :
                    /\ ~EmptyEntry(sHeaders[i])
                    /\ sent[i] = GenerateHeaderBytes(sHeaders[i].name, sHeaders[i].val)
                    /\ sent[i] # <<NL>>)
    /\ [][spc = "raised" => sent' = sent]_vars

\* the line of Version is on the stream and the empty header ended the call
C38_Witness ==
    /\ spc = "raised"
    /\ sCaller = <<Entry(VersionName, IntV(1)), Entry(<<"X">>, StrV(<<>>))>>
    /\ sGiven.kind = "bytes"
    /\ Len(sGiven.data) > 0
    /\ Len(sent) = 1
    /\ sIdx = 2

(***************************************************************************)
(* C35: with a recv() that hands over data, or no byte once the peer has   *)
(* closed, every call of get() ends: it returns a packet or it raises      *)
(* SocketClosedError; and after a recv() that gave no byte, recv() is not  *)
(* called again.                                                           *)
(***************************************************************************)

C35_GetTerminates ==
    /\ InGet ~> gpc \in {"ready", "raised"}
    /\ [][sawEOF => nrecv' = nrecv]_vars

\* every call of get() ends in some way, an error of another kind included
GetEnds == [](InGet => GetCanRun) /\ (InGet ~> ~InGet)

NoRecvAfterClose == [][sawEOF => (nrecv' = nrecv /\ gpc = "raised")]_vars

(***************************************************************************)
(* C31: every update packet of the host has a Differential header that is  *)
(* a Boolean, True with a diff for body and False with the whole file, and *)
(* what the guest decodes from it is a Boolean in both cases.              *)
(***************************************************************************)

\* the k-th packet of the stream is one of the host: handle or send_diff
\* built its headers
HostPacket(k) == packets[k].h # <<>>

C31_DifferentialBoolean ==
    /\ \A k \in 1..Len(packets) :
           HostPacket(k)
           => DictGet(packets[k].h, DifferentialName, NoneV).kind = "Boolean"
    /\ \A k \in 1..Len(results) :
           HostPacket(k)
           => DictGet(results[k].headers, DifferentialName, NoneV).kind = "Boolean"

(***************************************************************************)
(* C32: when the guest has processed an update that is no diff, its file   *)
(* holds the body of the packet and nothing else, also when the body is    *)
(* empty.                                                                  *)
(***************************************************************************)

\* the body the host gave to send() for the packet get() returned last
BodyGiven == packets[Len(results)].c.data

C32_FullContentWritten ==
    [][(/\ ppc = "get" /\ gpc = "ready"
        /\ HostPacket(Len(results))
        /\ DictGet(packets[Len(results)].h, DifferentialName, NoneV) # BoolV(TRUE))
       => (ppc' = "wait" /\ Concat(original') = BodyGiven)]_vars

(***************************************************************************)
(* C33: in a session that begins with the guest's file as the baseline of  *)
(* the host, after each update the guest has processed its file is the     *)
(* baseline the host keeps from then on: the edited lines of that update.  *)
(***************************************************************************)

OneLine(c) == <<<<c, NL>>>>

\* the sessions of the pool that begin with the guest's file, each with the
\* baselines the host keeps after its updates
Sessions ==
    {[updates |-> <<DiffPacket(GuestFile, FirstEdit)>>, baselines |-> <<FirstEdit>>],
     [updates |-> <<FullPacket(OneLine("b"))>>, baselines |-> <<OneLine("b")>>],
     [updates |-> <<FullPacket(<<>>)>>, baselines |-> <<<<>>>>],
     [updates |-> <<FullPacket(OneLine("b")), DiffPacket(OneLine("b"), OneLine("c"))>>,
      baselines |-> <<OneLine("b"), OneLine("c")>>]}

C33_GuestHoldsBaseline ==
    \A s \in Sessions :
        (packets = s.updates /\ ppc = "wait" /\ Len(results) >= 1)
        => Concat(original) = Concat(s.baselines[Len(results)])

(***************************************************************************)
(* C34: the edit loop of the host.  What was saved before the editor ended *)
(* is sent: the modification time is compared after every return of the    *)
(* wait, also when the process has ended, so the loop is left only when    *)
(* the host's baseline is what the file holds.  A save that leaves the     *)
(* lines of the baseline sends nothing.  When the editor has ended the     *)
(* loop comes to its end and the editing file is removed.                  *)
(***************************************************************************)

C34_EditLoop ==
    /\ [](lpc \in {"remove", "done"}
          => /\ editor_exited
             /\ last_modified = editing_mtime
             /\ host_original = editing_lines
             /\ (sent_updates # <<>>
                 => sent_updates[Len(sent_updates)] = editing_lines))
    /\ [][sent_updates' # sent_updates
          => /\ lpc = "decide"
             /\ temporary_file # host_original
             /\ sent_updates' = Append(sent_updates, temporary_file)
             /\ host_original' = temporary_file]_vars
    /\ [][(lpc = "decide" /\ temporary_file = host_original)
          => (sent_updates' = sent_updates /\ host_original' = host_original)]_vars
    /\ [](removed <=> lpc = "done")
    /\ editor_exited ~> (lpc = "done" /\ removed)

\* three saves, the last two before the host looked again, the last one as
\* the editor ended: two updates were sent and the file is removed
C34_Witness ==
    /\ lpc = "done"
    /\ removed
    /\ saves = 3
    /\ Len(sent_updates) = 2
    /\ sent_updates[2] = editing_lines
    /\ last_modified = 3

=============================================================================
